---- MODULE Spec2Model ----
(***************************************************************************)
(* Model of faces/generic-face/preview.py: the Context (time with virtual  *)
(* milliseconds) and the Renderer (load / unload / show of a face          *)
(* descriptor onto an LVGL screen).                                        *)
(*                                                                         *)
(* Text is modelled as a sequence of one-character strings, so that        *)
(* str.replace and the `in` test work on characters as they do in Python.  *)
(* Fractions are pairs (numerator, denominator); Python floats are exact   *)
(* only where every intermediate quotient is a dyadic rational.            *)
(***************************************************************************)
EXTENDS Integers, Sequences, FiniteSets, TLC

VARIABLES
    context,          \* Context: year .. yearday (None before the first set_time)
    _prev_ticks_ms,   \* Context._prev_ticks_ms
    ticks,            \* value the next time.ticks_ms() is measured from
    _fonts,           \* Renderer._fonts: sequence of [id, font] in insertion order
    _image_fonts,     \* Renderer._image_fonts
    _labels,          \* Renderer._labels: [lv_label, text, value]
    _handles,         \* Renderer._handles: [image, source, ranges]
    _images,          \* Renderer._images
    _gifs,            \* Renderer._gifs
    _container,       \* Renderer._container
    _use_smooth_handles,
    _update_interval_ms,
    lv_objs,          \* every LVGL object alive under the face screen, by id
    lv_fonts,         \* every LVGL font alive, [font, kind]
    next_font,        \* allocator of font handles
    calls,            \* LVGL calls made by the last Renderer operation
    op,               \* last Renderer operation: [name, raised]
    prev_op,          \* the Renderer operation before it
    last_show,        \* context, without millisecond, of the last show since
                      \* the last load or unload
    repeated,         \* the last show had the context of the show before it,
                      \* but for the millisecond
    face,             \* descriptor given to the last load (NoFace before it)
    scene,            \* Scene right after the last load
    prev_scene,       \* [face, scene] of the load before the last one
    loaded,           \* load has been called since the last unload
    loads,            \* number of load calls so far
    files,            \* the directory under _base_path: path -> [exists, data]
    fs_files,         \* every LVGL_FS_File created: [path, file]
    fs_op,            \* the last driver callback: arguments and outcome
    written,          \* per LVGL_FS_File: the bytes it wrote at offset 0 that
                      \* are still in the file, and whether its position is
                      \* still the end of that write
    app               \* App: where the program is, the screen loaded, the
                      \* widget focused and the faces still to snapshot; for a
                      \* snapshot, log is what has been done for the face at
                      \* hand and done the faces whose snapshot is written

vars == << context, _prev_ticks_ms, ticks, _fonts, _image_fonts, _labels,
           _handles, _images, _gifs, _container, _use_smooth_handles,
           _update_interval_ms, lv_objs, lv_fonts, next_font, calls, op,
           prev_op, last_show, repeated, face, scene, prev_scene, loaded,
           loads,
          files, fs_files, fs_op, written, app >>

FsVars == << files, fs_files, fs_op, written >>

\* Python None; every integer the program stores in its place is >= 0
None == -1

(***************************************************************************)
(* Bounds of the model.                                                    *)
(***************************************************************************)
MaxLoads == 2          \* load calls in one run
MaxTicks == 800        \* the tick counter stops advancing beyond this
MaxClockTicks == 2000  \* the same, where set_time alone is followed
MaxFrags == 3          \* fragments concatenated into a generated template
MaxFiles == 1          \* LVGL_FS_File objects created in one run
MaxLen == 2            \* bytes in a file of the directory

(***************************************************************************)
(* Python string operations on character sequences.                        *)
(***************************************************************************)
RECURSIVE Contains(_, _)
\* key in text
Contains(text, key) ==
    IF Len(text) < Len(key) THEN FALSE
    ELSE IF SubSeq(text, 1, Len(key)) = key THEN TRUE
    ELSE Contains(Tail(text), key)

RECURSIVE Replace(_, _, _)
\* Replace that replaces the first occurrence only
ReplaceFirst(text, key, val) ==
    IF Len(text) < Len(key) THEN text
    ELSE IF SubSeq(text, 1, Len(key)) = key
         THEN val \o SubSeq(text, Len(key) + 1, Len(text))
         ELSE <<Head(text)>> \o Replace(Tail(text), key, val)

\* text.replace(key, val): left to right, non-overlapping, one pass
Replace(text, key, val) ==
    IF Len(text) < Len(key) THEN text
    ELSE IF SubSeq(text, 1, Len(key)) = key
         THEN val \o Replace(SubSeq(text, Len(key) + 1, Len(text)), key, val)
         ELSE <<Head(text)>> \o Replace(Tail(text), key, val)

EndsWith(text, suffix) ==
    /\ Len(text) >= Len(suffix)
    /\ SubSeq(text, Len(text) - Len(suffix) + 1, Len(text)) = suffix

DigitChar(d) == <<"0", "1", "2", "3", "4", "5", "6", "7", "8", "9">>[d + 1]

RECURSIVE Str(_)
\* f"{n}" for a non-negative integer
Str(n) == IF n < 10 THEN <<DigitChar(n)>>
          ELSE Str(n \div 10) \o <<DigitChar(n % 10)>>

\* f"{n:0<w>d}" for a non-negative integer: pad on the left, never truncate
ZeroPad(n, w) == LET s == Str(n)
                 IN  IF Len(s) >= w THEN s
                     ELSE [i \in 1..w |-> IF i <= w - Len(s) THEN "0"
                                          ELSE s[i - (w - Len(s))]]

(***************************************************************************)
(* Template engine: _PLACEHOLDERS and the substitution loop of show.        *)
(***************************************************************************)
_WEEK_DAYS ==
    << <<"M", "o", "n", "d", "a", "y">>,
       <<"T", "u", "e", "s", "d", "a", "y">>,
       <<"W", "e", "d", "n", "e", "s", "d", "a", "y">>,
       <<"T", "h", "u", "r", "s", "d", "a", "y">>,
       <<"F", "r", "i", "d", "a", "y">>,
       <<"S", "a", "t", "u", "r", "d", "a", "y">>,
       <<"S", "u", "n", "d", "a", "y">> >>

_WEEK_DAYS_SHORT ==
    << <<"M", "O", "N">>,
       <<"T", "U", "E">>,
       <<"W", "E", "D">>,
       <<"T", "H", "U">>,
       <<"F", "R", "I">>,
       <<"S", "A", "T">>,
       <<"S", "U", "N">> >>

_MONTHS ==
    << <<"J", "a", "n", "u", "a", "r", "y">>,
       <<"F", "e", "b", "r", "u", "a", "r", "y">>,
       <<"M", "a", "r", "c", "h">>,
       <<"A", "p", "r", "i", "l">>,
       <<"M", "a", "y">>,
       <<"J", "u", "n", "e">>,
       <<"J", "u", "l", "y">>,
       <<"A", "u", "g", "u", "s", "t">>,
       <<"S", "e", "p", "t", "e", "m", "b", "e", "r">>,
       <<"O", "c", "t", "o", "b", "e", "r">>,
       <<"N", "o", "v", "e", "m", "b", "e", "r">>,
       <<"D", "e", "c", "e", "m", "b", "e", "r">> >>

_MONTHS_SHORT ==
    << <<"J", "A", "N">>,
       <<"F", "E", "B">>,
       <<"M", "A", "R">>,
       <<"A", "P", "R">>,
       <<"M", "A", "Y">>,
       <<"J", "U", "N">>,
       <<"J", "U", "L">>,
       <<"A", "U", "G">>,
       <<"S", "E", "P">>,
       <<"O", "C", "T">>,
       <<"N", "O", "V">>,
       <<"D", "E", "C">> >>

\* The keys of _PLACEHOLDERS, in the order the source lists them.
_PLACEHOLDERS ==
    << <<"{", "Y", "Y", "Y", "Y", "}">>,
       <<"{", "M", "M", "}">>,
       <<"{", "D", "D", "}">>,
       <<"{", "M", "}">>,
       <<"{", "D", "}">>,
       <<"{", "D", "#", "0", "}">>,
       <<"{", "D", "#", "1", "}">>,
       <<"{", "H", "H", "}">>,
       <<"{", "m", "m", "}">>,
       <<"{", "s", "s", "}">>,
       <<"{", "d", "a", "y", "}">>,
       <<"{", "d", "a", "y", "_", "s", "h", "o", "r", "t", "}">>,
       <<"{", "m", "o", "n", "t", "h", "}">>,
       <<"{", "m", "o", "n", "t", "h", "_", "s", "h", "o", "r", "t", "}">>,
       <<"{", "b", "a", "t", "t", "e", "r", "y", "_", "p", "e", "r", "c", "e", "n", "t", "}">>,
       <<"{", "b", "a", "t", "t", "e", "r", "y", "_", "i", "c", "o", "n", "}">>,
       <<"{", "b", "a", "t", "t", "e", "r", "y", "_", "i", "c", "o", "n", "_", "c", "o", "l", "o", "r", "i", "z", "e", "d", "}">> >>

BATTERY_FULL == "<BATTERY_FULL>"   \* lv.SYMBOL.BATTERY_FULL, one character

\* The value of _PLACEHOLDERS[key](context), by the position of the key.
transform_cb(i, c) ==
    CASE i = 1  -> ZeroPad(c.year, 4)
      [] i = 2  -> ZeroPad(c.month, 2)
      [] i = 3  -> ZeroPad(c.day, 2)
      [] i = 4  -> Str(c.month)
      [] i = 5  -> Str(c.day)
      [] i = 6  -> <<ZeroPad(c.day, 2)[1]>>
      [] i = 7  -> <<ZeroPad(c.day, 2)[2]>>
      [] i = 8  -> ZeroPad(c.hour, 2)
      [] i = 9  -> ZeroPad(c.minute, 2)
      [] i = 10 -> ZeroPad(c.second, 2)
      [] i = 11 -> _WEEK_DAYS[c.weekday + 1]
      [] i = 12 -> _WEEK_DAYS_SHORT[c.weekday + 1]
      [] i = 13 -> _MONTHS[c.month]
      [] i = 14 -> _MONTHS_SHORT[c.month]
      [] i = 15 -> <<"1", "0", "0">>
      [] i = 16 -> <<BATTERY_FULL>>
      [] i = 17 -> <<"#", "0", "0", "F", "F", "0", "0", " ", BATTERY_FULL, "#">>

\* Orders in which `for key, transform_cb in _PLACEHOLDERS.items()` can visit
\* the keys: a MicroPython dict iterates in hash-table order, which need not
\* be the insertion order; the source order and its reverse stand for them.
PlaceholderOrders ==
    { [i \in 1..Len(_PLACEHOLDERS) |-> i],
      [i \in 1..Len(_PLACEHOLDERS) |-> Len(_PLACEHOLDERS) + 1 - i] }

RECURSIVE ResolveFrom(_, _, _, _)
\* ResolveFrom that leaves the loop after the first key it has replaced
ResolveFromBreak(text, c, order, k) ==
    IF k > Len(order) THEN text
    ELSE LET key == _PLACEHOLDERS[order[k]]
         IN  IF Contains(text, key)
             THEN Replace(text, key, transform_cb(order[k], c))
             ELSE ResolveFrom(text, c, order, k + 1)

\* ResolveFrom that matches a key by its characters before the closing brace
ResolveFromOpen(text, c, order, k) ==
    IF k > Len(order) THEN text
    ELSE LET whole == _PLACEHOLDERS[order[k]]
             key == SubSeq(whole, 1, Len(whole) - 1)
         IN  ResolveFrom(IF Contains(text, key)
                           THEN Replace(text, key, transform_cb(order[k], c))
                           ELSE text,
                         c, order, k + 1)

\* the inner loop of show over the keys order[k..]
ResolveFrom(text, c, order, k) ==
    IF k > Len(order) THEN text
    ELSE LET key == _PLACEHOLDERS[order[k]]
         IN  ResolveFrom(IF Contains(text, key)
                           THEN Replace(text, key, transform_cb(order[k], c))
                           ELSE text,
                         c, order, k + 1)

\* the text show computes for one label
Resolve(text, c, order) == ResolveFrom(text, c, order, 1)

(***************************************************************************)
(* Indicator angle model: _HANDLES_* tables and the angle of show.         *)
(* A value is [n, d, exact]: the fraction n/d (d > 0) and whether the      *)
(* Python float that holds it is exactly n/d.                              *)
(***************************************************************************)
HandleSources == {"month", "day", "day0", "day1", "hour", "minute", "second"}

DEFAULT_RANGES == <<0, 100, 0, 360>>   \* the default of _HANDLES_DEFAULT_RANGES.get

\* _HANDLES_DEFAULT_RANGES with the ranges of a second hand as the default
_HANDLES_DEFAULT_RANGESOfSecond(source) ==
    CASE source = "month"  -> <<1, 12, 0, 360>>
      [] source = "day"    -> <<1, 31, 0, 360>>
      [] source = "day0"   -> <<1, 31, 0, 360>>
      [] source = "day1"   -> <<1, 31, 0, 360>>
      [] source = "hour"   -> <<0, 12, 0, 360>>
      [] OTHER             -> <<0, 60, 0, 360>>

_HANDLES_DEFAULT_RANGES(source) ==
    CASE source = "month"  -> <<1, 12, 0, 360>>
      [] source = "day"    -> <<1, 31, 0, 360>>
      [] source = "day0"   -> <<1, 31, 0, 360>>
      [] source = "day1"   -> <<1, 31, 0, 360>>
      [] source = "hour"   -> <<0, 12, 0, 360>>
      [] source = "minute" -> <<0, 60, 0, 360>>
      [] source = "second" -> <<0, 60, 0, 360>>
      [] OTHER             -> DEFAULT_RANGES

Abs(x) == IF x < 0 THEN -x ELSE x

RECURSIVE GCD(_, _)
GCD(a, b) == IF b = 0 THEN a ELSE GCD(b, a % b)

RECURSIVE IsPowerOfTwo(_)
IsPowerOfTwo(n) == IF n = 1 THEN TRUE
                   ELSE IF n % 2 = 1 THEN FALSE
                   ELSE IsPowerOfTwo(n \div 2)

\* n/d (d # 0) is a binary fraction, so the float quotient n / d is exact
Dyadic(n, d) == IF n = 0 THEN TRUE
                ELSE IsPowerOfTwo(Abs(d) \div GCD(Abs(n), Abs(d)))

Whole(n) == [n |-> n, d |-> 1, exact |-> TRUE]

_HANDLES_GET_VALUES(source, c) ==
    CASE source = "month"  -> Whole(c.month - 1)
      [] source = "day"    -> Whole(c.day - 1)
      [] source = "day0"   -> Whole(c.day - 1)
      [] source = "day1"   -> Whole(c.day)
      [] source = "hour"   -> [n |-> (c.hour % 12) * 60 + c.minute, d |-> 60,
                               exact |-> Dyadic(c.minute, 60)]
      [] source = "minute" -> Whole(c.minute)
      [] source = "second" -> Whole(c.second)
      [] OTHER             -> Whole(0)

_HANDLES_GET_SMOOTH_VALUES(source, c) ==
    CASE source = "month"  -> [n |-> (c.month - 1) * 31 + c.day, d |-> 31,
                               exact |-> Dyadic(c.day, 31)]
      [] source = "day"    -> [n |-> (c.day - 1) * 24 + c.hour, d |-> 24,
                               exact |-> Dyadic(c.hour, 24)]
      [] source = "day0"   -> [n |-> (c.day - 1) * 24 + c.hour, d |-> 24,
                               exact |-> Dyadic(c.hour, 24)]
      [] source = "day1"   -> [n |-> c.day * 24 + c.hour, d |-> 24,
                               exact |-> Dyadic(c.hour, 24)]
      [] source = "hour"   -> [n |-> (c.hour % 12) * 3600 + c.minute * 60 + c.second,
                               d |-> 3600,
                               exact |-> Dyadic(c.minute, 60) /\ Dyadic(c.second, 3600)]
      [] source = "minute" -> [n |-> c.minute * 60 + c.second, d |-> 60,
                               exact |-> Dyadic(c.second, 60)]
      [] source = "second" -> [n |-> c.second * 1000 + c.millisecond, d |-> 1000,
                               exact |-> Dyadic(c.millisecond, 1000)]
      [] OTHER             -> Whole(0)

\* int(x) of the fraction n/d: the fraction part is dropped (toward zero)
Trunc(n, d) ==
    LET nn == IF d < 0 THEN -n ELSE n
        dd == Abs(d)
    IN  IF nn >= 0 THEN nn \div dd ELSE -((-nn) \div dd)

\* AngleNum with value - min_value for the position within the range
AngleNumMinus(value, ranges) ==
    10 * (ranges[3] * value.d * ranges[2]
          + (value.n - ranges[1] * value.d) * ranges[4])

\* (min_angle + ((min_value + value) / max_value) * max_angle) * 10 as the
\* fraction AngleNum / AngleDen; max_value # 0
AngleNum(value, ranges) ==
    10 * (ranges[3] * value.d * ranges[2]
          + (ranges[1] * value.d + value.n) * ranges[4])

AngleDen(value, ranges) == value.d * ranges[2]

\* every quotient of the expression is a binary fraction: the float is exact
AngleExact(value, ranges) ==
    /\ value.exact
    /\ Dyadic(ranges[1] * value.d + value.n, value.d * ranges[2])

\* The integers int(...) can produce in line 284.  Where the float expression
\* is exact it is the truncated fraction.  Where a quotient is rounded, the
\* float is within a few units in the last place of the fraction, so a
\* fraction that is a whole number can come out just below it in magnitude
\* and lose one in int().
Angles(value, ranges) ==
    LET n == AngleNum(value, ranges)
        d == AngleDen(value, ranges)
        q == Trunc(n, d)
    IN  IF AngleExact(value, ranges) \/ n % d # 0 \/ q = 0
        THEN {q}
        ELSE {q, IF q > 0 THEN q - 1 ELSE q + 1}

(***************************************************************************)
(* Context.                                                                *)
(***************************************************************************)
NoContext ==
    [year |-> None, month |-> None, day |-> None, hour |-> None,
     minute |-> None, second |-> None, millisecond |-> None,
     weekday |-> None, yearday |-> None]

\* time tuples (year, month, day, hour, minute, second, weekday, yearday) the
\* clock returns and the command line passes
Times ==
    { <<2023, 1, 1, 12, 0, 0, 0, 1>>,
      <<2023, 1, 1, 12, 0, 1, 0, 1>>,
      <<2023, 11, 15, 23, 7, 59, 2, 319>> }

\* more time tuples, for the specifications that draw one context
AllTimes ==
    Times \cup { <<2024, 2, 5, 11, 59, 30, 0, 36>>,
                 <<2023, 12, 31, 0, 30, 0, 6, 365>> }

\* the context set_time leaves for a tuple, with the millisecond reached
ContextAt(time_tuple, millisecond) ==
    [year |-> time_tuple[1], month |-> time_tuple[2], day |-> time_tuple[3],
     hour |-> time_tuple[4], minute |-> time_tuple[5], second |-> time_tuple[6],
     weekday |-> time_tuple[7], yearday |-> time_tuple[8],
     millisecond |-> millisecond]

\* milliseconds between two readings of time.ticks_ms()
TickDeltas == {260, 500}

\* set_time without the reset of the millisecond on a new second
set_timeNoReset(time_tuple, current_ticks_ms) ==
    LET added == IF _prev_ticks_ms > 0
                 THEN context.millisecond + (current_ticks_ms - _prev_ticks_ms)
                 ELSE context.millisecond
    IN  /\ context' = ContextAt(time_tuple, added)
        /\ _prev_ticks_ms' = current_ticks_ms

\* Context.set_time with the tuple in use (given, or time.localtime()) and the
\* value time.ticks_ms() returns
set_time(time_tuple, current_ticks_ms) ==
    LET prev_second == context.second
        added == IF _prev_ticks_ms > 0
                 THEN context.millisecond + (current_ticks_ms - _prev_ticks_ms)
                 ELSE context.millisecond
    IN  /\ context' = [year |-> time_tuple[1], month |-> time_tuple[2],
                       day |-> time_tuple[3], hour |-> time_tuple[4],
                       minute |-> time_tuple[5], second |-> time_tuple[6],
                       weekday |-> time_tuple[7], yearday |-> time_tuple[8],
                       millisecond |-> IF prev_second # time_tuple[6] THEN 0
                                       ELSE added]
        /\ _prev_ticks_ms' = current_ticks_ms

(***************************************************************************)
(* Descriptors.  A descriptor and its items are records whose fields are   *)
(* the keys present in the JSON object; Get is dict.get.                   *)
(***************************************************************************)
NoneStr == "None"    \* Python None where the program expects a string

EmptyDict == [key \in {} |-> None]

Get(dict, key, default) == IF key \in DOMAIN dict THEN dict[key] ELSE default

_DEFAULT_UPDATE_INTERVAL_MS == 1000

_INTERNAL_FONT_NAMES ==
    << <<".", "d", "e", "f", "a", "u", "l", "t">>,
       <<".", "m", "o", "n", "t", "s", "e", "r", "r", "a", "t", "_", "1", "4">>,
       <<".", "m", "o", "n", "t", "s", "e", "r", "r", "a", "t", "_", "1", "6">> >>

\* _INTERNAL_FONTS.get(name, None): the built-in fonts are the handles 1..3
_INTERNAL_FONTS(name) ==
    IF \E i \in 1..Len(_INTERNAL_FONT_NAMES) : _INTERNAL_FONT_NAMES[i] = name
    THEN CHOOSE i \in 1..Len(_INTERNAL_FONT_NAMES) : _INTERNAL_FONT_NAMES[i] = name
    ELSE None

FirstFont == Len(_INTERNAL_FONT_NAMES) + 1   \* first handle of a created font

\* font files present under S:fonts/
FontFiles == { <<"a", ".", "t", "t", "f">>, <<"b", ".", "b", "i", "n">>,
               <<"a", ".", "t", "t", "f", "/", "b">> }

\* image and gif files present in the directory of the face
ImageFiles == {"bg.png", "hand.png", "logo.png", "anim.gif"}

(***************************************************************************)
(* LVGL as the Renderer uses it.  An object lives until it is deleted; the *)
(* Renderer never deletes one.  A font lives until its destructor runs.    *)
(***************************************************************************)
Call(fn, target, text, num) ==
    [fn |-> fn, target |-> target, text |-> text, num |-> num]

\* an object under the face screen: what it is and where it hangs
NewObj(kind, parent) == [kind |-> kind, parent |-> parent]

\* the reference the Renderer holds to a drawable, with what the drawable
\* shows: the text and font of a label, the source and angle of an image
Drawable(id) ==
    [id |-> id, text |-> <<>>, font |-> None, rotation |-> 0, src |-> NoneStr]

SCREEN == 0    \* Renderer._screen, the parent of every container

\* dict[key] = value on a dict kept as a sequence of [id, font]
DictSet(dict, id, font) ==
    IF \E i \in 1..Len(dict) : dict[i].id = id
    THEN [i \in 1..Len(dict) |-> IF dict[i].id = id
                                 THEN [id |-> id, font |-> font] ELSE dict[i]]
    ELSE Append(dict, [id |-> id, font |-> font])

DictGet(dict, id, default) ==
    IF \E i \in 1..Len(dict) : dict[i].id = id
    THEN dict[CHOOSE i \in 1..Len(dict) : dict[i].id = id].font
    ELSE default

(***************************************************************************)
(* Renderer.  The builders work on a record st of the fields load changes: *)
(* objs, fonts, image_fonts, labels, handles, images, gifs, lv_fonts,      *)
(* next_font, calls, and raised: an exception is on its way out of load.   *)
(***************************************************************************)
\* set_src(path) of an image or gif raises: LVGL opens the file through
\* open_cb, which raises for a file that is not there
SetSrcRaises(path) == path \notin ImageFiles

\* _show_image whose set_src never raises
_show_imageQuiet(st, parent, path) ==
    LET image == Len(st.objs) + 1
    IN  [st |-> [st EXCEPT !.objs = Append(@, NewObj("image", parent)),
                           !.calls = Append(@, Call("set_src", image, <<>>, 0))],
         image |-> [Drawable(image) EXCEPT !.src = path]]

\* Renderer._show_image: [st, image]; st.raised if set_src has raised
_show_image(st, parent, path) ==
    LET image == Len(st.objs) + 1
    IN  [st |-> [st EXCEPT !.objs = Append(@, NewObj("image", parent)),
                           !.calls = Append(@, Call("set_src", image, <<>>, 0)),
                           !.raised = SetSrcRaises(path)],
         image |-> [Drawable(image) EXCEPT !.src = path]]

\* Renderer._load_font: [st, font].  missing says what the font loader does
\* for a file that is not there: "raise" or return "null".
_load_font(st, item, missing) ==
    LET name == Get(item, "font", <<>>)
        size == Get(item, "font_size", 0)
        id   == name \o <<"/">> \o Str(size)
        kind == IF EndsWith(name, <<".", "t", "t", "f">>) THEN "ttf" ELSE "bin"
    IN  IF name = <<>> THEN [st |-> st, font |-> None]
        ELSE IF _INTERNAL_FONTS(name) # None
             THEN [st |-> st, font |-> _INTERNAL_FONTS(name)]
        ELSE IF DictGet(st.fonts, id, None) # None
             THEN [st |-> st, font |-> DictGet(st.fonts, id, None)]
        ELSE IF name \in FontFiles
             THEN [st |-> [st EXCEPT !.fonts = DictSet(@, id, st.next_font),
                                     !.lv_fonts = @ \cup {[font |-> st.next_font,
                                                           kind |-> kind]},
                                     !.next_font = @ + 1],
                   font |-> st.next_font]
        ELSE IF missing = "raise"
             THEN [st |-> st, font |-> None]
        ELSE [st |-> [st EXCEPT !.fonts = DictSet(@, id, None)], font |-> None]

\* Renderer._load_image_font: [st, font]
_load_image_font(st, item) ==
    IF "imagefont" \notin DOMAIN item THEN [st |-> st, font |-> None]
    ELSE [st |-> [st EXCEPT !.image_fonts = Append(@, st.next_font),
                            !.lv_fonts = @ \cup {[font |-> st.next_font,
                                                  kind |-> "img"]},
                            !.next_font = @ + 1],
          font |-> st.next_font]

\* _load_label with the template as the cached value
_load_labelCached(st, parent, item, missing) ==
    LET label == Len(st.objs) + 1
        s1 == [st EXCEPT !.objs = Append(@, NewObj("label", parent)),
                         !.calls = Append(@, Call("set_text", label, <<>>, 0))]
        f1 == _load_font(s1, item, missing)
        f2 == IF f1.font # None THEN f1 ELSE _load_image_font(f1.st, item)
    IN  [f2.st EXCEPT !.labels =
            Append(@, [lv_label |-> [Drawable(label) EXCEPT !.font = f2.font],
                       text |-> Get(item, "text", <<>>),
                       value |-> Get(item, "text", <<>>)])]

\* Renderer._load_label
_load_label(st, parent, item, missing) ==
    LET label == Len(st.objs) + 1
        s1 == [st EXCEPT !.objs = Append(@, NewObj("label", parent)),
                         !.calls = Append(@, Call("set_text", label, <<>>, 0))]
        f1 == _load_font(s1, item, missing)
        f2 == IF f1.font # None THEN f1 ELSE _load_image_font(f1.st, item)
    IN  [f2.st EXCEPT !.labels =
            Append(@, [lv_label |-> [Drawable(label) EXCEPT !.font = f2.font],
                       text |-> Get(item, "text", <<>>),
                       value |-> <<>>])]

\* Renderer._load_image
_load_image(st, parent, item) ==
    LET img == _show_image(st, parent, Get(item, "file", NoneStr))
    IN  IF img.st.raised THEN img.st
        ELSE [img.st EXCEPT !.images = Append(@, img.image)]

\* Renderer._load_gif
_load_gif(st, parent, item) ==
    LET gif == Len(st.objs) + 1
        file == Get(item, "file", NoneStr)
        s1 == [st EXCEPT !.objs = Append(@, NewObj("gif", parent)),
                         !.calls = Append(@, Call("set_src", gif, <<>>, 0)),
                         !.raised = SetSrcRaises(file)]
    IN  IF s1.raised THEN s1
        ELSE [s1 EXCEPT !.gifs = Append(@, [Drawable(gif) EXCEPT !.src = file])]

\* Renderer._load_handle
_load_handle(st, parent, item) ==
    LET source == Get(item, "source", NoneStr)
        default_ranges == _HANDLES_DEFAULT_RANGES(source)
        ranges == << Get(item, "min_value", default_ranges[1]),
                     Get(item, "max_value", default_ranges[2]),
                     Get(item, "min_angle", default_ranges[3]),
                     Get(item, "max_angle", default_ranges[4]) >>
        img == _show_image(st, parent, Get(item, "image", NoneStr))
    IN  IF img.st.raised THEN img.st
        ELSE [img.st EXCEPT !.handles = Append(@, [image |-> img.image,
                                                   source |-> source,
                                                   ranges |-> ranges])]

\* LoadItem that raises for a type without a load function
LoadItemStrict(st, parent, item, missing) ==
    LET item_type == Get(item, "type", NoneStr)
    IN  CASE item_type = "label"  -> _load_label(st, parent, item, missing)
          [] item_type = "image"  -> _load_image(st, parent, item)
          [] item_type = "gif"    -> _load_gif(st, parent, item)
          [] item_type = "handle" -> _load_handle(st, parent, item)
          [] OTHER                -> [st EXCEPT !.raised = TRUE]

\* one turn of the loop over config["items"]
LoadItem(st, parent, item, missing) ==
    LET item_type == Get(item, "type", NoneStr)
    IN  CASE item_type = "label"  -> _load_label(st, parent, item, missing)
          [] item_type = "image"  -> _load_image(st, parent, item)
          [] item_type = "gif"    -> _load_gif(st, parent, item)
          [] item_type = "handle" -> _load_handle(st, parent, item)
          [] OTHER                -> st

RECURSIVE LoadItems(_, _, _, _, _)
\* the loop over config["items"], from item k on; an exception ends it
LoadItems(st, parent, items, k, missing) ==
    IF k > Len(items) \/ st.raised THEN st
    ELSE LoadItems(LoadItem(st, parent, items[k], missing),
                   parent, items, k + 1, missing)

\* what the tracking lists hold, without the identity of the drawables
SceneOf(labels, handles, images, gifs, objs) ==
    [labels  |-> [i \in DOMAIN labels |->
                    [kind |-> objs[labels[i].lv_label.id].kind,
                     text |-> labels[i].text]],
     handles |-> [i \in DOMAIN handles |->
                    [kind |-> objs[handles[i].image.id].kind,
                     source |-> handles[i].source,
                     ranges |-> handles[i].ranges]],
     images  |-> [i \in DOMAIN images |-> [kind |-> objs[images[i].id].kind,
                                           src |-> images[i].src]],
     gifs    |-> [i \in DOMAIN gifs |-> [kind |-> objs[gifs[i].id].kind,
                                         src |-> gifs[i].src]]]

NoScene == SceneOf(<<>>, <<>>, <<>>, <<>>, <<>>)
NoFace == [none |-> TRUE]

\* the context without its millisecond
SansMs(c) == [c EXCEPT !.millisecond = 0]

\* bookkeeping of every Renderer operation
Did(name, raised) ==
    /\ op' = [name |-> name, raised |-> raised]
    /\ prev_op' = op

\* Unsupported that takes every version but "0" for a supported one
UnsupportedLax(config) ==
    "version" \notin DOMAIN config \/ config.version = "0"

\* the version test of load: config["version"] != "1", a KeyError when the
\* descriptor has no version
Unsupported(config) ==
    "version" \notin DOMAIN config \/ config.version # "1"

\* Renderer.load(face_relative_path, config)
load(config, missing) ==
    LET container == Len(lv_objs) + 1
        st0 == [objs |-> Append(lv_objs, NewObj("obj", SCREEN)),
                fonts |-> _fonts, image_fonts |-> _image_fonts,
                labels |-> _labels, handles |-> _handles,
                images |-> _images, gifs |-> _gifs,
                lv_fonts |-> lv_fonts, next_font |-> next_font,
                calls |-> <<>>, raised |-> FALSE]
        unsupported == Unsupported(config)
        background == Get(config, "background", EmptyDict)
        has_image == "image" \in DOMAIN background
        image == _show_image(st0, container, background.image)
        st1 == IF ~has_image THEN st0
               ELSE IF image.st.raised THEN image.st
               ELSE [image.st EXCEPT !.images = Append(@, image.image)]
        root == IF has_image THEN image.image.id ELSE container
        st2 == LoadItems(st1, root, Get(config, "items", <<>>), 1, missing)
        st == IF unsupported THEN st0 ELSE st2
        raised == unsupported \/ st.raised
    IN  /\ lv_objs' = st.objs
        /\ _fonts' = st.fonts
        /\ _image_fonts' = st.image_fonts
        /\ _labels' = st.labels
        /\ _handles' = st.handles
        /\ _images' = st.images
        /\ _gifs' = st.gifs
        /\ lv_fonts' = st.lv_fonts
        /\ next_font' = st.next_font
        /\ calls' = st.calls
        /\ _container' = IF unsupported \/ st1.raised THEN _container ELSE root
        /\ _update_interval_ms' =
              IF unsupported THEN _update_interval_ms
              ELSE Get(config, "update_interval_ms", _DEFAULT_UPDATE_INTERVAL_MS)
        /\ _use_smooth_handles' =
              IF unsupported THEN _use_smooth_handles
              ELSE Get(config, "smooth_handles", FALSE)
        /\ Did("load", raised)
        /\ last_show' = NoContext
        /\ repeated' = FALSE
        /\ prev_scene' = [face |-> face, scene |-> scene]
        /\ face' = config
        /\ scene' = SceneOf(st.labels, st.handles, st.images, st.gifs, st.objs)
        /\ loaded' = TRUE
        /\ loads' = loads + 1
        /\ UNCHANGED << context, _prev_ticks_ms, ticks >>
        /\ UNCHANGED FsVars

\* the destructor calls of unload, one for every entry of _fonts
FontDestroyCalls(fonts) ==
    [i \in DOMAIN fonts |->
        Call(IF Contains(fonts[i].id, <<".", "t", "t", "f", "/">>)
             THEN "tiny_ttf_destroy" ELSE "binfont_destroy",
             fonts[i].font, <<>>, 0)]

ImageFontDestroyCalls(image_fonts) ==
    [i \in DOMAIN image_fonts |-> Call("imgfont_destroy", image_fonts[i], <<>>, 0)]

\* clear that leaves the collection as it is
clearNothing(collection) == collection

\* clear that leaves the first entry behind
clearButFirst(collection) ==
    IF Len(collection) = 0 THEN collection ELSE <<collection[1]>>

\* list.clear() and dict.clear()
clear(collection) == <<>>

\* Renderer.unload(): `del x` unbinds the loop variable and clear() empties
\* the lists; no LVGL object is deleted
unload ==
    LET destroyed == {_fonts[i].font : i \in DOMAIN _fonts}
                     \cup {_image_fonts[i] : i \in DOMAIN _image_fonts}
    IN  /\ calls' = FontDestroyCalls(_fonts) \o ImageFontDestroyCalls(_image_fonts)
        /\ lv_fonts' = {f \in lv_fonts : f.font \notin destroyed}
        /\ _images' = clear(_images)
        /\ _handles' = clear(_handles)
        /\ _gifs' = clear(_gifs)
        /\ _labels' = clear(_labels)
        /\ _fonts' = clear(_fonts)
        /\ _image_fonts' = clear(_image_fonts)
        /\ Did("unload", FALSE)
        /\ last_show' = NoContext
        /\ repeated' = FALSE
        /\ loaded' = FALSE
        /\ UNCHANGED FsVars
        /\ UNCHANGED << context, _prev_ticks_ms, ticks, _container,
                        _use_smooth_handles, _update_interval_ms, lv_objs,
                        next_font, face, scene, prev_scene, loads >>

\* the value show reads for a handle
HandleValue(handle, c) ==
    IF _use_smooth_handles THEN _HANDLES_GET_SMOOTH_VALUES(handle.source, c)
    ELSE _HANDLES_GET_VALUES(handle.source, c)

\* ShowLabel without the comparison with the cached value
ShowLabelAlways(label, c, order) ==
    LET text == Resolve(label.text, c, order)
    IN  [label |-> [label EXCEPT !.value = text, !.lv_label.text = text],
         wrote |-> TRUE]

\* one turn of the loop over _labels: the label after it, and whether
\* set_text was called
ShowLabel(label, c, order) ==
    LET text == Resolve(label.text, c, order)
    IN  IF text # label.value
        THEN [label |-> [label EXCEPT !.value = text, !.lv_label.text = text],
              wrote |-> TRUE]
        ELSE [label |-> label, wrote |-> FALSE]

RECURSIVE ShowLabels(_, _, _, _)
\* the loop over _labels from label k on: the labels after it and the
\* set_text calls made
ShowLabels(acc, k, c, order) ==
    IF k > Len(acc.labels) THEN acc
    ELSE LET r == ShowLabel(acc.labels[k], c, order)
         IN  ShowLabels([labels |-> [acc.labels EXCEPT ![k] = r.label],
                         calls |-> IF r.wrote
                                   THEN Append(acc.calls,
                                               Call("set_text", r.label.lv_label.id,
                                                    r.label.value, 0))
                                   ELSE acc.calls],
                        k + 1, c, order)

\* Renderer.show(context), with the order the placeholders are visited in and
\* the angle int() yields for every handle
show(c, order, angles) ==
    LET shown == ShowLabels([labels |-> _labels, calls |-> <<>>], 1, c, order)
    IN  /\ \A i \in DOMAIN _handles :
              angles[i] \in Angles(HandleValue(_handles[i], c), _handles[i].ranges)
        /\ _labels' = shown.labels
        /\ _handles' = [i \in DOMAIN _handles |->
                          [_handles[i] EXCEPT !.image.rotation = angles[i]]]
        /\ calls' = shown.calls
                    \o [i \in DOMAIN _handles |->
                          Call("set_rotation", _handles[i].image.id, <<>>,
                               angles[i])]
        /\ Did("show", FALSE)
        /\ repeated' = (last_show = SansMs(c))
        /\ last_show' = SansMs(c)
        /\ UNCHANGED FsVars
        /\ UNCHANGED << context, _prev_ticks_ms, ticks, _fonts, _image_fonts,
                        _images, _gifs, _container, _use_smooth_handles,
                        _update_interval_ms, lv_objs, lv_fonts, next_font,
                        face, scene, prev_scene, loaded, loads >>

(***************************************************************************)
(* The faces of the model.                                                 *)
(***************************************************************************)
DateTemplate == <<"{", "Y", "Y", "Y", "Y", "}", "-", "{", "M", "M", "}", "-", "{", "D", "D", "}">>
TimeTemplate == <<"{", "H", "H", "}", ":", "{", "m", "m", "}", ":", "{", "s", "s", "}">>
DayTemplate  == <<"{", "d", "a", "y", "}">>
FontTtf  == <<"a", ".", "t", "t", "f">>
FontBin  == <<"b", ".", "b", "i", "n">>
FontGone == <<"g", "o", "n", "e", ".", "b", "i", "n">>

Faces ==
    { \* the snapshot scenario: a background colour and one date label
      [version |-> "1", background |-> [color |-> "#000000"],
       items |-> << [type |-> "label", text |-> DateTemplate] >>],
      \* an unsupported version
      [version |-> "2",
       items |-> << [type |-> "label", text |-> DateTemplate],
                    [type |-> "handle", image |-> "hand.png", source |-> "second"] >>],
      \* no version at all
      [items |-> << [type |-> "image", file |-> "logo.png"] >>],
      \* background image, smooth handles, two labels sharing one font
      [version |-> "1", smooth_handles |-> TRUE, update_interval_ms |-> 100,
       background |-> [image |-> "bg.png"],
       items |-> << [type |-> "label", text |-> TimeTemplate,
                     font |-> FontTtf, font_size |-> 20],
                    [type |-> "handle", image |-> "hand.png", source |-> "second"],
                    [type |-> "label", text |-> DayTemplate,
                     font |-> FontTtf, font_size |-> 20] >>],
      \* every kind of item, an unknown type and an item without a type
      [version |-> "1",
       items |-> << [type |-> "gif", file |-> "anim.gif"],
                    [type |-> "chart", file |-> "x"],
                    [file |-> "y"],
                    [type |-> "image", file |-> "logo.png"],
                    [type |-> "handle", image |-> "hand.png", source |-> "hour"],
                    [type |-> "handle", image |-> "hand.png", source |-> "minute",
                     min_angle |-> 90, max_angle |-> 180] >>],
      \* fonts: built-in, bitmap, glyph images, and a file that is not there
      [version |-> "1",
       items |-> << [type |-> "label", text |-> DayTemplate,
                     font |-> _INTERNAL_FONT_NAMES[1]],
                    [type |-> "label", text |-> DateTemplate, font |-> FontBin],
                    [type |-> "label", text |-> TimeTemplate,
                     imagefont |-> "digits", font_size |-> 30],
                    [type |-> "label", font |-> FontGone] >>] }

\* the loader's answer for a font file that is not there
MissingFontOutcomes == {"raise", "null"}

(***************************************************************************)
(* Specification: one Context and one Renderer, driven as App drives them. *)
(***************************************************************************)
(***************************************************************************)
(* LVGL_FS_Driver: the callbacks LVGL calls for drive S, over the native   *)
(* files of Python's open().                                               *)
(***************************************************************************)
_RET_OK == "FS_RES.OK"
_RET_FS_ERR == "FS_RES.FS_ERR"

\* lv.FS_MODE.WR, lv.FS_MODE.RD and lv.FS_MODE.WR | lv.FS_MODE.RD
FS_MODE_WR == 1
FS_MODE_RD == 2
FS_MODE_WR_RD == 3

\* the mode values LVGL can pass
Modes == 0..4

\* paths under _base_path: one that exists at start, one that does not
Paths == {"face.json", "none.png"}

NoFile == [exists |-> FALSE, data |-> <<>>]

\* whence of file.seek
SEEK_SET == 0
SEEK_CUR == 1
SEEK_END == 2

\* What a native operation does apart from its own rules: nothing, an
\* OSError whose errno is a key of errno.errorcode (EIO), or an exception
\* whose args[0] is missing or not such a key (MemoryError, OSError(ENOSPC))
Faults == {"none", "listed", "unlisted"}

\* the buffers of at most n bytes LVGL writes: byte i of a buffer is i
BuffersOf(n) == { [i \in 1..k |-> i] : k \in 1..n }

\* A callback: its arguments, and its outcome: the value returned (NoneStr
\* if it raised, "LVGL_FS_File" for the object open_cb returns, which is
\* file), the exception that left it, the errno name it printed or raised
\* with, the count or position stored through the pointer argument and the
\* bytes put in buf
Outcome(name, args, ret, raised, error, count, buf) ==
    [name |-> name, args |-> args, ret |-> ret, raised |-> raised,
     error |-> error, count |-> count, buf |-> buf, file |-> None]

\* a callback that returns _RET_OK
Ok(name, args, count, buf) ==
    Outcome(name, args, _RET_OK, NoneStr, NoneStr, count, buf)

\* the except branch of close_cb .. write_cb: _print_error looks the errno
\* up in errno.errorcode, which raises for an exception without one
Failed(name, args, error) ==
    IF error = "unlisted"
    THEN Outcome(name, args, NoneStr, "KeyError", NoneStr, None, <<>>)
    ELSE Outcome(name, args, _RET_FS_ERR, NoneStr, error, None, <<>>)

\* the bytes of data with buf written at offset pos
Overwrite(data, pos, buf) ==
    [i \in 1..(IF pos + Len(buf) > Len(data) THEN pos + Len(buf) ELSE Len(data)) |->
        IF i > pos /\ i <= pos + Len(buf) THEN buf[i - pos]
        ELSE IF i <= Len(data) THEN data[i]
        ELSE 0]

\* p_mode of open_cb with every mode value mapped to a mode of open()
PModeLax(mode) ==
    IF mode = FS_MODE_WR THEN "wb"
    ELSE IF mode = FS_MODE_WR_RD THEN "rb+"
    ELSE "rb"

\* p_mode of open_cb, NoneStr in the else branch
PMode(mode) ==
    IF mode = FS_MODE_WR THEN "wb"
    ELSE IF mode = FS_MODE_RD THEN "rb"
    ELSE IF mode = FS_MODE_WR_RD THEN "rb+"
    ELSE NoneStr

\* OpenError for an open() that creates the file in every mode
OpenErrorCreate(path, p_mode, fault) ==
    IF fault = "unlisted" THEN "unlisted"
    ELSE IF fault = "listed" THEN "EIO"
    ELSE NoneStr

\* the error open(path, p_mode) raises, or NoneStr
OpenError(path, p_mode, fault) ==
    IF fault = "unlisted" THEN "unlisted"
    ELSE IF p_mode # "wb" /\ ~files[path].exists THEN "ENOENT"
    ELSE IF fault = "listed" THEN "EIO"
    ELSE NoneStr

\* LVGL_FS_Driver.open_cb
open_cb(path, mode, fault) ==
    LET p_mode == PMode(mode)
        error == OpenError(path, p_mode, fault)
        handle == Len(fs_files) + 1
        args == [path |-> path, mode |-> mode, fault |-> fault]
    IN  IF p_mode = NoneStr
        THEN /\ fs_op' = Outcome("open_cb", args, NoneStr, "RuntimeError",
                                 "open mode error", None, <<>>)
             /\ UNCHANGED << files, fs_files >>
        ELSE IF error # NoneStr
        THEN /\ fs_op' = IF error = "unlisted"
                         THEN Outcome("open_cb", args, NoneStr, "KeyError",
                                      NoneStr, None, <<>>)
                         ELSE Outcome("open_cb", args, NoneStr, "RuntimeError",
                                      error, None, <<>>)
             /\ UNCHANGED << files, fs_files >>
        ELSE /\ files' = IF p_mode = "wb"
                         THEN [files EXCEPT ![path] = [exists |-> TRUE, data |-> <<>>]]
                         ELSE files
             /\ fs_files' = Append(fs_files,
                                   [path |-> path,
                                    file |-> [p_mode |-> p_mode, pos |-> 0,
                                              closed |-> FALSE]])
             /\ fs_op' = [Outcome("open_cb", args, "LVGL_FS_File", NoneStr,
                                  NoneStr, None, <<>>) EXCEPT !.file = handle]

\* LVGL_FS_Driver.close_cb
close_cb(handle, fault) ==
    LET args == [handle |-> handle, fault |-> fault]
    IN  IF fault # "none"
        THEN /\ fs_op' = Failed("close_cb", args,
                                IF fault = "listed" THEN "EIO" ELSE fault)
             /\ UNCHANGED << files, fs_files >>
        ELSE /\ fs_files' = [fs_files EXCEPT ![handle].file.closed = TRUE,
                                             ![handle].file.pos = 0]
             /\ fs_op' = Ok("close_cb", args, None, <<>>)
             /\ UNCHANGED files

\* read_cb whose readinto leaves the last byte out of buf
read_cbSkip(handle, btr, fault) ==
    LET f == fs_files[handle].file
        data == files[fs_files[handle].path].data
        rest == IF f.pos < Len(data) THEN Len(data) - f.pos ELSE 0
        bytes_read == IF btr < rest THEN btr ELSE rest
        args == [handle |-> handle, btr |-> btr, fault |-> fault, at |-> f.pos]
    IN  IF fault # "none" \/ f.p_mode = "wb"
        THEN /\ fs_op' = Failed("read_cb", args,
                                IF fault = "unlisted" THEN fault
                                ELSE IF f.p_mode = "wb" THEN "EBADF" ELSE "EIO")
             /\ UNCHANGED << files, fs_files >>
        ELSE /\ fs_files' = [fs_files EXCEPT ![handle].file.pos = f.pos + bytes_read]
             /\ fs_op' = Ok("read_cb", args, bytes_read,
                            SubSeq(data, f.pos + 1, f.pos + bytes_read - 1))
             /\ UNCHANGED files

\* LVGL_FS_Driver.read_cb
read_cb(handle, btr, fault) ==
    LET f == fs_files[handle].file
        data == files[fs_files[handle].path].data
        rest == IF f.pos < Len(data) THEN Len(data) - f.pos ELSE 0
        bytes_read == IF btr < rest THEN btr ELSE rest
        args == [handle |-> handle, btr |-> btr, fault |-> fault, at |-> f.pos]
    IN  IF fault # "none" \/ f.p_mode = "wb"
        THEN /\ fs_op' = Failed("read_cb", args,
                                IF fault = "unlisted" THEN fault
                                ELSE IF f.p_mode = "wb" THEN "EBADF" ELSE "EIO")
             /\ UNCHANGED << files, fs_files >>
        ELSE /\ fs_files' = [fs_files EXCEPT ![handle].file.pos = f.pos + bytes_read]
             /\ fs_op' = Ok("read_cb", args, bytes_read,
                            SubSeq(data, f.pos + 1, f.pos + bytes_read))
             /\ UNCHANGED files

\* LVGL_FS_Driver.seek_cb
seek_cb(handle, pos, whence, fault) ==
    LET f == fs_files[handle].file
        data == files[fs_files[handle].path].data
        target == IF whence = SEEK_SET THEN pos
                  ELSE IF whence = SEEK_CUR THEN f.pos + pos
                  ELSE Len(data) + pos
        args == [handle |-> handle, pos |-> pos, whence |-> whence,
                 fault |-> fault]
    IN  IF fault # "none"
        THEN /\ fs_op' = Failed("seek_cb", args,
                                IF fault = "listed" THEN "EIO" ELSE fault)
             /\ UNCHANGED << files, fs_files >>
        ELSE /\ fs_files' = [fs_files EXCEPT ![handle].file.pos = target]
             /\ fs_op' = Ok("seek_cb", args, None, <<>>)
             /\ UNCHANGED files

\* LVGL_FS_Driver.tell_cb
tell_cb(handle, fault) ==
    LET args == [handle |-> handle, fault |-> fault]
    IN  IF fault # "none"
        THEN /\ fs_op' = Failed("tell_cb", args,
                                IF fault = "listed" THEN "EIO" ELSE fault)
             /\ UNCHANGED << files, fs_files >>
        ELSE /\ fs_op' = Ok("tell_cb", args, fs_files[handle].file.pos, <<>>)
             /\ UNCHANGED << files, fs_files >>

\* LVGL_FS_Driver.write_cb
write_cb(handle, buf, btw, fault) ==
    LET f == fs_files[handle].file
        path == fs_files[handle].path
        args == [handle |-> handle, buf |-> buf, btw |-> btw, fault |-> fault,
                 at |-> f.pos]
    IN  IF fault # "none" \/ f.p_mode = "rb"
        THEN /\ fs_op' = Failed("write_cb", args,
                                IF fault = "unlisted" THEN fault
                                ELSE IF f.p_mode = "rb" THEN "EBADF" ELSE "EIO")
             /\ UNCHANGED << files, fs_files >>
        ELSE /\ files' = [files EXCEPT ![path].data =
                             Overwrite(@, f.pos, SubSeq(buf, 1, btw))]
             /\ fs_files' = [fs_files EXCEPT ![handle].file.pos = f.pos + btw]
             /\ fs_op' = Ok("write_cb", args, btw, <<>>)

\* nothing written at offset 0 is known to be in the file
NoWrite == [buf |-> <<>>, unmoved |-> FALSE]

\* LVGL_FS_Driver.__init__: the directory as it is found, no file opened
InitFs ==
    /\ files = [p \in Paths |-> IF p = "face.json"
                                THEN [exists |-> TRUE, data |-> <<0, 0>>]
                                ELSE NoFile]
    /\ fs_files = <<>>
    /\ fs_op = Outcome("init", EmptyDict, NoneStr, NoneStr, NoneStr, None, <<>>)
    /\ written = <<>>

\* App.__init__ has run and the main program is about to choose what to do:
\* no screen is loaded, the first widget of the default group (the faces
\* dropdown) has the focus, the first face is selected
AppInit ==
    [pc |-> "main", ret |-> "exit", screen |-> "none", focused |-> "dropdown",
     _is_running |-> FALSE, selected |-> 1, name |-> 1, time_tuple |-> <<>>,
     todo |-> <<>>, events |-> TRUE, mode |-> "none", log |-> <<>>,
     done |-> <<>>]

\* Renderer.__init__
InitRenderer ==
    /\ _fonts = <<>>
    /\ _image_fonts = <<>>
    /\ _labels = <<>>
    /\ _handles = <<>>
    /\ _images = <<>>
    /\ _gifs = <<>>
    /\ _container = None
    /\ _use_smooth_handles = FALSE
    /\ _update_interval_ms = _DEFAULT_UPDATE_INTERVAL_MS
    /\ lv_objs = <<>>
    /\ lv_fonts = {}
    /\ next_font = FirstFont
    /\ calls = <<>>
    /\ op = [name |-> "init", raised |-> FALSE]
    /\ prev_op = [name |-> "init", raised |-> FALSE]
    /\ last_show = NoContext
    /\ repeated = FALSE
    /\ face = NoFace
    /\ scene = NoScene
    /\ prev_scene = [face |-> NoFace, scene |-> NoScene]
    /\ loaded = FALSE
    /\ loads = 0

Init ==
    /\ context = NoContext
    /\ _prev_ticks_ms = 0
    /\ ticks = 0
    /\ InitRenderer
    /\ InitFs
    /\ app = AppInit

RendererVars == << _fonts, _image_fonts, _labels, _handles, _images, _gifs,
                   _container, _use_smooth_handles, _update_interval_ms,
                   lv_objs, lv_fonts, next_font, calls, op, prev_op, last_show,
                   repeated, face, scene, prev_scene, loaded, loads >>

\* all four tracking lists and both font collections are empty
IsUnloaded ==
    /\ _labels = <<>> /\ _handles = <<>> /\ _images = <<>> /\ _gifs = <<>>
    /\ _fonts = <<>> /\ _image_fonts = <<>>

\* Context.set_time(), or set_time(tuple): the tuple comes from the clock or
\* from the caller, and the tick counter has advanced since the last reading
SetTime ==
    \E time_tuple \in Times, delta \in TickDeltas :
        /\ ticks + delta <= MaxTicks
        /\ ticks' = ticks + delta
        /\ set_time(time_tuple, ticks')
        /\ UNCHANGED RendererVars
        /\ UNCHANGED FsVars
        /\ UNCHANGED app

\* Renderer.load as App calls it: first, or after the unload of the load
\* before (_face_screen_click_cb, snapshot)
LoadIn(faces) ==
    \E config \in faces, missing \in MissingFontOutcomes :
        /\ ~loaded
        /\ loads < MaxLoads
        /\ load(config, missing)
        /\ UNCHANGED app

Load == LoadIn(Faces)

Unload == unload /\ UNCHANGED app

\* every way show can run for the context c: the order of the placeholders
\* and the angle of every handle
ShowWith(c) ==
    \E order \in PlaceholderOrders :
        \E angles \in [DOMAIN _handles ->
                         UNION {Angles(HandleValue(_handles[i], c), _handles[i].ranges)
                                  : i \in DOMAIN _handles}] :
            show(c, order, angles)

\* Renderer.show(self._context), after a set_time as in App.loop and _show_face
Show ==
    /\ context # NoContext
    /\ ShowWith(context)
    /\ UNCHANGED app

Next == SetTime \/ Load \/ Unload \/ Show

Spec == Init /\ [][Next]_vars

(***************************************************************************)
(* Specification of the Context alone: set_time is called again and again, *)
(* with the tuple of the clock or a tuple of the caller, soon after the    *)
(* call before or after a load and a snapshot have run in between.         *)
(***************************************************************************)
\* milliseconds between two calls of set_time
Delays == TickDeltas \cup {1000}

\* Context.set_time(), or set_time(tuple), some time after the call before
SetTimeAfter ==
    \E time_tuple \in Times, delay \in Delays :
        /\ ticks + delay <= MaxClockTicks
        /\ ticks' = ticks + delay
        /\ set_time(time_tuple, ticks')
        /\ UNCHANGED << RendererVars, FsVars, app >>

SpecClock == Init /\ [][SetTimeAfter]_vars

(***************************************************************************)
(* Specification of the template engine: a face of one label is loaded and *)
(* shown for a context that set_time has left.                             *)
(***************************************************************************)
\* pieces of a label text: tokens, an unknown placeholder, an open and a
\* closing brace
LabelFrags ==
    { <<"{", "M", "}">>, <<"{", "D", "#", "0", "}">>, <<"{", "X", "}">>, <<"{", "D", "#">>, <<"}">> }

RECURSIVE TemplatesOf(_)
\* the texts made of at most n pieces
TemplatesOf(n) ==
    IF n = 0 THEN { <<>> }
    ELSE LET shorter == TemplatesOf(n - 1)
         IN  shorter \cup { t \o f : t \in shorter, f \in LabelFrags }

LabelTemplates ==
    TemplatesOf(MaxFrags)
    \cup { _PLACEHOLDERS[i] : i \in DOMAIN _PLACEHOLDERS }
    \cup { DateTemplate, TimeTemplate }

LabelFaces ==
    { [version |-> "1", background |-> [color |-> "#000000"],
       items |-> << [type |-> "label", text |-> t] >>] : t \in LabelTemplates }

\* the state after App._show_face has called set_time for the first time
InitShown(milliseconds) ==
    /\ \E t \in AllTimes, ms \in milliseconds : context = ContextAt(t, ms)
    /\ _prev_ticks_ms = 260
    /\ ticks = 260
    /\ InitRenderer
    /\ InitFs
    /\ app = AppInit

InitLabels == InitShown({0})

LoadLabel == LoadIn(LabelFaces)

NextLabels == LoadLabel \/ Show

SpecLabels == InitLabels /\ [][NextLabels]_vars

(***************************************************************************)
(* Specification of the angle model: a face of one handle is loaded and    *)
(* shown for a context that set_time has left.                             *)
(***************************************************************************)
\* the range keys a handle item gives
RangeOverrides ==
    { EmptyDict,
      [min_value |-> 5],
      [max_value |-> 7],
      [min_value |-> 0, max_value |-> 24],
      [min_angle |-> -90, max_angle |-> 180],
      [min_value |-> 2, max_value |-> 8, min_angle |-> 45, max_angle |-> -90] }

HandleItems ==
    { [type |-> "handle", image |-> "hand.png"] @@ o : o \in RangeOverrides }
    \cup { [type |-> "handle", image |-> "hand.png", source |-> s] @@ o :
              s \in HandleSources \cup {"battery"}, o \in RangeOverrides }

HandleFaces ==
    { [version |-> "1", smooth_handles |-> smooth, items |-> << h >>] :
         smooth \in BOOLEAN, h \in HandleItems }

\* milliseconds the tick counter can have added within one second
Milliseconds == {0, 10, 260, 999}

InitHandles == InitShown(Milliseconds)

LoadHandle == LoadIn(HandleFaces)

NextHandles == LoadHandle \/ Show

SpecHandles == InitHandles /\ [][NextHandles]_vars

(***************************************************************************)
(* Specification for the assets of a face: descriptors whose images and    *)
(* fonts are missing, shared or oddly named, loaded, shown and unloaded.   *)
(***************************************************************************)
\* a bitmap font in a directory whose name ends in .ttf
FontInDir == <<"a", ".", "t", "t", "f", "/", "b">>

AssetFaces ==
    { \* the background image is not there
      [version |-> "1", background |-> [image |-> "gone.png"],
       items |-> << [type |-> "label", text |-> DateTemplate, font |-> FontTtf],
                    [type |-> "image", file |-> "logo.png"] >>],
      \* the file of an image is not there
      [version |-> "1", background |-> [image |-> "bg.png"],
       items |-> << [type |-> "label", text |-> DayTemplate],
                    [type |-> "image", file |-> "gone.png"],
                    [type |-> "label", text |-> DateTemplate] >>],
      \* the file of a gif is not there
      [version |-> "1",
       items |-> << [type |-> "gif", file |-> "gone.gif"],
                    [type |-> "image", file |-> "logo.png"] >>],
      \* the image of a handle is not there
      [version |-> "1",
       items |-> << [type |-> "handle", image |-> "gone.png", source |-> "second"],
                    [type |-> "label", text |-> DayTemplate] >>],
      \* the font of a label is not there, twice
      [version |-> "1",
       items |-> << [type |-> "label", text |-> DayTemplate, font |-> FontGone],
                    [type |-> "label", text |-> DateTemplate, font |-> FontGone],
                    [type |-> "image", file |-> "logo.png"] >>],
      \* two labels with the same glyph images
      [version |-> "1",
       items |-> << [type |-> "label", text |-> TimeTemplate,
                     imagefont |-> "digits", font_size |-> 30],
                    [type |-> "label", text |-> DateTemplate,
                     imagefont |-> "digits", font_size |-> 30] >>],
      \* one bitmap font asked for with two sizes
      [version |-> "1",
       items |-> << [type |-> "label", text |-> DayTemplate, font |-> FontBin],
                    [type |-> "label", text |-> DateTemplate, font |-> FontBin,
                     font_size |-> 12] >>],
      \* one scalable font: the same size twice, and another size
      [version |-> "1",
       items |-> << [type |-> "label", text |-> DayTemplate,
                     font |-> FontTtf, font_size |-> 20],
                    [type |-> "label", text |-> DateTemplate,
                     font |-> FontTtf, font_size |-> 20],
                    [type |-> "label", text |-> TimeTemplate,
                     font |-> FontTtf, font_size |-> 30] >>],
      \* a bitmap font under a directory named like a scalable font, a
      \* built-in font and glyph images
      [version |-> "1",
       items |-> << [type |-> "label", text |-> DayTemplate, font |-> FontInDir],
                    [type |-> "label", text |-> DateTemplate,
                     font |-> _INTERNAL_FONT_NAMES[1]],
                    [type |-> "label", text |-> TimeTemplate,
                     imagefont |-> "digits"] >>] }

InitAssets == InitShown({0})

LoadAsset == LoadIn(AssetFaces)

NextAssets == LoadAsset \/ Unload \/ Show

SpecAssets == InitAssets /\ [][NextAssets]_vars

(***************************************************************************)
(* Specification of the filesystem driver: LVGL calls the callbacks in any *)
(* order, the file callbacks on an LVGL_FS_File it has not closed, and     *)
(* opens a file when it has closed the one before.                         *)
(***************************************************************************)
AppVars == << context, _prev_ticks_ms, ticks, _fonts, _image_fonts, _labels,
              _handles, _images, _gifs, _container, _use_smooth_handles,
              _update_interval_ms, lv_objs, lv_fonts, next_font, calls, op,
              prev_op, last_show, repeated, face, scene, prev_scene, loaded,
              loads, app >>

\* the LVGL_FS_File objects LVGL still holds
OpenHandles == { h \in DOMAIN fs_files : ~fs_files[h].file.closed }

\* written after a callback on handle that has succeeded: the handle's entry
\* becomes mine, and the entries of the other LVGL_FS_File objects of the
\* same path are dropped if the file's bytes have changed
After(handle, mine, changed) ==
    [h \in DOMAIN written |->
        IF h = handle THEN mine
        ELSE IF changed /\ fs_files[h].path = fs_files[handle].path THEN NoWrite
        ELSE written[h]]

OpenCb ==
    \E path \in Paths, mode \in Modes, fault \in Faults :
        /\ Len(fs_files) < MaxFiles
        /\ OpenHandles = {}
        /\ open_cb(path, mode, fault)
        /\ written' = IF fs_op'.raised # NoneStr THEN written
                      ELSE Append([h \in DOMAIN written |->
                                      IF files'[path] # files[path]
                                         /\ fs_files[h].path = path
                                      THEN NoWrite ELSE written[h]],
                                  NoWrite)
        /\ UNCHANGED AppVars

CloseCb ==
    \E handle \in OpenHandles, fault \in Faults :
        /\ close_cb(handle, fault)
        /\ written' = IF fs_op'.ret # _RET_OK THEN written
                      ELSE After(handle, NoWrite, FALSE)
        /\ UNCHANGED AppVars

ReadCb ==
    \E handle \in OpenHandles, btr \in {1, MaxLen}, fault \in Faults :
        /\ read_cb(handle, btr, fault)
        /\ written' = IF fs_op'.ret # _RET_OK THEN written
                      ELSE After(handle, [written[handle] EXCEPT !.unmoved = FALSE],
                                 FALSE)
        /\ UNCHANGED AppVars

SeekCb ==
    \E handle \in OpenHandles, pos \in {0, 1},
       whence \in {SEEK_SET, SEEK_CUR, SEEK_END}, fault \in Faults :
        /\ seek_cb(handle, pos, whence, fault)
        /\ fs_files'[handle].file.pos <= MaxLen
        /\ written' = IF fs_op'.ret # _RET_OK THEN written
                      ELSE After(handle, [written[handle] EXCEPT !.unmoved = FALSE],
                                 FALSE)
        /\ UNCHANGED AppVars

TellCb ==
    \E handle \in OpenHandles, fault \in Faults :
        /\ tell_cb(handle, fault)
        /\ UNCHANGED written
        /\ UNCHANGED AppVars

WriteCb ==
    \E handle \in OpenHandles, buf \in BuffersOf(MaxLen), fault \in Faults :
        /\ fs_files[handle].file.pos + Len(buf) <= MaxLen
        /\ write_cb(handle, buf, Len(buf), fault)
        /\ written' = IF fs_op'.ret # _RET_OK THEN written
                      ELSE After(handle,
                                 IF fs_files[handle].file.pos = 0
                                 THEN [buf |-> buf, unmoved |-> TRUE]
                                 ELSE NoWrite,
                                 TRUE)
        /\ UNCHANGED AppVars

InitDriver ==
    /\ context = NoContext
    /\ _prev_ticks_ms = 0
    /\ ticks = 0
    /\ InitRenderer
    /\ InitFs
    /\ app = AppInit

NextFs == OpenCb \/ CloseCb \/ ReadCb \/ SeekCb \/ TellCb \/ WriteCb

SpecFs == InitDriver /\ [][NextFs]_vars

(***************************************************************************)
(* Specification of the App: the main program starts the preview loop or   *)
(* takes snapshots; the callbacks of the widgets run while the loop sleeps.*)
(* _show_face runs as three steps: set_time, load, show.                   *)
(***************************************************************************)
\* App._faces: the descriptors of the face directories, in sorted order
AppFaces ==
    << [version |-> "1", background |-> [color |-> "#000000"],
        items |-> << [type |-> "label", text |-> DateTemplate] >>],
       [version |-> "1", smooth_handles |-> TRUE,
        items |-> << [type |-> "handle", image |-> "hand.png", source |-> "second"],
                     [type |-> "label", text |-> TimeTemplate] >>],
       [version |-> "1",
        items |-> << [type |-> "label", text |-> DayTemplate],
                     [type |-> "image", file |-> "gone.png"] >>] >>

\* the face names of the command line: a face of _faces, or a name with no
\* directory
FaceNames == 1..(Len(AppFaces) + 1)

NoFaceName == 0     \* no face name on the command line

\* time tuples of the command line
SyntheticTimes == { <<2023, 1, 1, 12, 0, 0, 0, 1>> }

\* the widgets of the menu screen in the default group, in creation order
Group == << "dropdown", "show", "reload", "exit" >>

\* the widget after w in the group
NextFocus(w) ==
    LET i == CHOOSE k \in 1..Len(Group) : Group[k] = w
    IN  Group[(i % Len(Group)) + 1]

\* lv.screen_load(_face_screen) of _show_face(name), and where the rest of
\* _show_face returns to
ShowFace(name, ret) ==
    [app EXCEPT !.screen = "face", !.pc = "sf.set_time", !.name = name,
                !.ret = ret]

ClockVars == << context, _prev_ticks_ms, ticks >>

_WIDTH == 240
_HEIGHT == 240

\* an entry of app.log: what was done, and the bytes written if any
Step(name) == [step |-> name, n |-> 0]

\* app.log after steps, kept while a snapshot is taken
Logged(steps) ==
    IF app.mode \in {"snapshot", "snapshot_all"} THEN app.log \o steps
    ELSE app.log

\* the bounds of the model leave room for the set_time and the load of one
\* more _show_face
CanShowFace ==
    /\ \E delta \in TickDeltas : ticks + delta <= MaxTicks
    /\ loads < MaxLoads

\* uasyncio.run(app.loop(face_name))
MainLoop ==
    \E face_name \in FaceNames \cup {NoFaceName} :
        /\ app.pc = "main"
        /\ app' = IF face_name \in 1..Len(AppFaces)
                  THEN [ShowFace(face_name, "loop") EXCEPT !.selected = face_name]
                  ELSE [app EXCEPT !.screen = "menu", !.pc = "loop",
                                   !._is_running = TRUE]
        /\ UNCHANGED << ClockVars, RendererVars, FsVars >>

\* app.snapshot(face_name, snapshot_file_name, time_tuple)
MainSnapshot ==
    \E face_name \in FaceNames, time_tuple \in SyntheticTimes \cup {<<>>} :
        /\ app.pc = "main"
        /\ app' = [app EXCEPT !.pc = "snap", !.todo = <<face_name>>,
                              !.time_tuple = time_tuple, !.mode = "snapshot"]
        /\ UNCHANGED << ClockVars, RendererVars, FsVars >>

\* app.snapshot_all(snapshot_name_postfix, snapshots_path, time_tuple)
MainSnapshotAll ==
    \E time_tuple \in SyntheticTimes :
        /\ app.pc = "main"
        /\ app' = [app EXCEPT !.pc = "snap",
                              !.todo = [i \in 1..Len(AppFaces) |-> i],
                              !.time_tuple = time_tuple,
                              !.mode = "snapshot_all"]
        /\ UNCHANGED << ClockVars, RendererVars, FsVars >>

\* App.snapshot up to its call of _show_face: a face without a directory is
\* skipped, else the face screen is cleaned
Snapshot ==
    /\ app.pc = "snap"
    /\ app.todo # <<>>
    /\ IF Head(app.todo) \in 1..Len(AppFaces)
       THEN /\ lv_objs' = <<>>
            /\ app' = [ShowFace(Head(app.todo), "snap.unload") EXCEPT
                          !.log = <<Step("clean")>>]
       ELSE /\ app' = [app EXCEPT !.todo = Tail(@)]
            /\ UNCHANGED lv_objs
    /\ UNCHANGED << ClockVars, FsVars, _fonts, _image_fonts, _labels, _handles,
                    _images, _gifs, _container, _use_smooth_handles,
                    _update_interval_ms, lv_fonts, next_font, calls, op,
                    prev_op, last_show, repeated, face, scene, prev_scene,
                    loaded, loads >>

\* SnapshotUnload with the renderer unloaded before the snapshot is taken
SnapshotUnloadEarly ==
    /\ app.pc = "snap.unload"
    /\ unload
    /\ app' = [app EXCEPT
                  !.pc = "snap", !.todo = Tail(@),
                  !.done = Append(@, Head(app.todo)),
                  !.log = Logged(<< Step("unload"), Step("snapshot_take"),
                                    [step |-> "write", n |-> _WIDTH * _HEIGHT * 4] >>
                                 \o (IF app.mode = "snapshot_all"
                                     THEN <<Step("cache_drop")>> ELSE <<>>))]

\* App.snapshot after _show_face: the snapshot is taken and written and the
\* renderer unloaded; snapshot_all then drops the image cache
SnapshotUnload ==
    /\ app.pc = "snap.unload"
    /\ unload
    /\ app' = [app EXCEPT
                  !.pc = "snap", !.todo = Tail(@),
                  !.done = Append(@, Head(app.todo)),
                  !.log = Logged(<< Step("snapshot_take"),
                                    [step |-> "write", n |-> _WIDTH * _HEIGHT * 4],
                                    Step("unload") >>
                                 \o (IF app.mode = "snapshot_all"
                                     THEN <<Step("cache_drop")>> ELSE <<>>))]

\* every face has its snapshot: sys.exit
SnapshotDone ==
    /\ app.pc = "snap"
    /\ app.todo = <<>>
    /\ app' = [app EXCEPT !.pc = "exit"]
    /\ UNCHANGED << ClockVars, RendererVars, FsVars >>

\* _show_face: self._context.set_time(time_tuple)
ShowFaceSetTime ==
    \E time_tuple \in (IF app.time_tuple = <<>> THEN Times ELSE {app.time_tuple}),
       delta \in TickDeltas :
        /\ app.pc = "sf.set_time"
        /\ ticks + delta <= MaxTicks
        /\ ticks' = ticks + delta
        /\ set_time(time_tuple, ticks')
        /\ app' = [app EXCEPT !.pc = "sf.load",
                              !.log = Logged(<<Step("cache_drop"), Step("set_time")>>)]
        /\ UNCHANGED << RendererVars, FsVars >>

\* _show_face: self._renderer.load(path, config).  An exception ends the
\* program when it leaves loop or snapshot; when it leaves a callback, the
\* event loop either carries on or stops dispatching events.
ShowFaceLoad ==
    \E missing \in MissingFontOutcomes, alive \in BOOLEAN :
        /\ app.pc = "sf.load"
        /\ loads < MaxLoads
        /\ load(AppFaces[app.name], missing)
        /\ app' = IF ~op'.raised
                  THEN [app EXCEPT !.pc = "sf.show", !.log = Logged(<<Step("load")>>)]
                  ELSE IF app.ret = "sleep"
                  THEN [app EXCEPT !.pc = "sleep", !.events = alive]
                  ELSE [app EXCEPT !.pc = "exit"]

\* _show_face: self._renderer.show(self._context), and the return
ShowFaceShow ==
    /\ app.pc = "sf.show"
    /\ ShowWith(context)
    /\ app' = [app EXCEPT !.pc = app.ret,
                          !._is_running = IF app.ret = "loop" THEN TRUE ELSE @,
                          !.log = Logged(<<Step("show")>>)]

\* LoopSetTime without the while test
LoopSetTimeAlways ==
    \E time_tuple \in Times, delta \in TickDeltas :
        /\ app.pc = "loop"
        /\ ticks + delta <= MaxTicks
        /\ ticks' = ticks + delta
        /\ set_time(time_tuple, ticks')
        /\ app' = [app EXCEPT !.pc = "loop.show"]
        /\ UNCHANGED << RendererVars, FsVars >>

\* App.loop: the while test and self._context.set_time()
LoopSetTime ==
    \E time_tuple \in Times, delta \in TickDeltas :
        /\ app.pc = "loop"
        /\ app._is_running
        /\ ticks + delta <= MaxTicks
        /\ ticks' = ticks + delta
        /\ set_time(time_tuple, ticks')
        /\ app' = [app EXCEPT !.pc = "loop.show"]
        /\ UNCHANGED << RendererVars, FsVars >>

\* App.loop: self._renderer.show(self._context)
LoopShow ==
    /\ app.pc = "loop.show"
    /\ ShowWith(context)
    /\ app' = [app EXCEPT !.pc = "sleep"]

\* App.loop: await uasyncio.sleep_ms has returned
Wake ==
    /\ app.pc = "sleep"
    /\ app' = [app EXCEPT !.pc = "loop"]
    /\ UNCHANGED << ClockVars, RendererVars, FsVars >>

\* App.loop: the while test fails
LoopExit ==
    /\ app.pc = "loop"
    /\ ~app._is_running
    /\ app' = [app EXCEPT !.pc = "exit"]
    /\ UNCHANGED << ClockVars, RendererVars, FsVars >>

\* Dispatching for an event loop that also runs while show is running
DispatchingInShow == app.pc \in {"sleep", "loop.show"} /\ app.events

\* LVGL dispatches an event while the loop sleeps
Dispatching == app.pc = "sleep" /\ app.events

\* App._face_screen_click_cb, for a click on the left margin, the right
\* margin or between them
FaceScreenClick ==
    \E side \in {"left", "right", "middle"} :
        /\ Dispatching
        /\ app.screen = "face"
        /\ side = "middle" \/ CanShowFace
        /\ unload
        /\ LET index == IF side = "left"
                        THEN (IF app.selected > 1 THEN app.selected - 1 ELSE 1)
                        ELSE (IF app.selected < Len(AppFaces)
                              THEN app.selected + 1 ELSE Len(AppFaces))
           IN  app' = IF side = "middle" THEN [app EXCEPT !.screen = "menu"]
                      ELSE [ShowFace(index, "sleep") EXCEPT !.selected = index]

\* App._show_button_cb for a click of the pointer on the Show button, which
\* is on the menu screen; the click moves the focus to the button
ShowButtonClick ==
    /\ Dispatching
    /\ app.screen = "menu"
    /\ CanShowFace
    /\ app' = [ShowFace(app.selected, "sleep") EXCEPT !.focused = "show"]
    /\ UNCHANGED << ClockVars, RendererVars, FsVars >>

\* the keyboard moves the focus to the next widget of the default group
KeyNext ==
    /\ Dispatching
    /\ app' = [app EXCEPT !.focused = NextFocus(@)]
    /\ UNCHANGED << ClockVars, RendererVars, FsVars >>

\* App._show_button_cb for ENTER of the keyboard with the focus on the Show
\* button, whichever screen is loaded
ShowButtonKey ==
    /\ Dispatching
    /\ app.focused = "show"
    /\ CanShowFace
    /\ app' = ShowFace(app.selected, "sleep")
    /\ UNCHANGED << ClockVars, RendererVars, FsVars >>

\* App._exit_button_cb, for a click on the menu screen or ENTER with the
\* focus on the Exit button
ExitButton ==
    /\ Dispatching
    /\ app.screen = "menu" \/ app.focused = "exit"
    /\ app' = [app EXCEPT !._is_running = FALSE, !.focused = "exit"]
    /\ UNCHANGED << ClockVars, RendererVars, FsVars >>

NextApp ==
    \/ MainLoop \/ MainSnapshot \/ MainSnapshotAll
    \/ Snapshot \/ SnapshotUnload \/ SnapshotDone
    \/ ShowFaceSetTime \/ ShowFaceLoad \/ ShowFaceShow
    \/ LoopSetTime \/ LoopShow \/ Wake \/ LoopExit
    \/ FaceScreenClick \/ ShowButtonClick \/ KeyNext \/ ShowButtonKey
    \/ ExitButton

SpecApp == Init /\ [][NextApp]_vars

\* what ShowFaceShow does to app; show itself can always run
ShowFaceReturn ==
    /\ app.pc = "sf.show"
    /\ app' = [app EXCEPT !.pc = app.ret,
                          !._is_running = IF app.ret = "loop" THEN TRUE ELSE @,
                          !.log = Logged(<<Step("show")>>)]

\* The App as it is scheduled: a callback runs to its end (the steps of
\* _show_face follow one another), the sleep of the loop returns however
\* many events are dispatched before, and the while test follows.
SpecAppFair ==
    /\ SpecApp
    /\ WF_vars(ShowFaceSetTime) /\ WF_vars(ShowFaceLoad) /\ WF_app(ShowFaceReturn)
    /\ SF_vars(Wake)
    /\ WF_vars(LoopExit)

(***************************************************************************)
(* Properties of the Renderer.                                             *)
(***************************************************************************)
SceneKinds == {"label", "image", "gif"}   \* what a Scene Item is drawn with

\* C1: change suppression.  A show whose context agrees, but for the
\* millisecond, with the context of the show right before it calls set_text
\* on no label; every show calls set_rotation on every handle.
ChangeSuppression ==
    op.name = "show" =>
        /\ \A i \in DOMAIN _handles :
              \E k \in DOMAIN calls : /\ calls[k].fn = "set_rotation"
                                      /\ calls[k].target = _handles[i].image.id
        /\ repeated => \A k \in DOMAIN calls : calls[k].fn # "set_text"

\* a second show in the same second, later in it, of a face with a label
\* that shows text and with a handle
ChangeSuppressionWitness ==
    /\ op.name = "show" /\ repeated
    /\ context.millisecond > 0
    /\ \E i \in DOMAIN _labels : _labels[i].lv_label.text # <<>>
    /\ _handles # <<>>

\* C2: load failure.  A load of a descriptor whose version is not "1" raises,
\* tracks nothing in the four lists, makes no call on a drawable, and hangs
\* nothing under the container it created.
LoadFailure ==
    (op.name = "load" /\ ("version" \notin DOMAIN face \/ face.version # "1")) =>
        /\ op.raised
        /\ _labels = <<>> /\ _images = <<>> /\ _gifs = <<>> /\ _handles = <<>>
        /\ calls = <<>>
        /\ lv_objs[Len(lv_objs)].kind = "obj"
        /\ \A i \in DOMAIN lv_objs : lv_objs[i].parent # Len(lv_objs)

\* a load of a version "2" descriptor with items, after an earlier face
LoadFailureWitness ==
    /\ op.name = "load" /\ op.raised
    /\ "version" \in DOMAIN face /\ face.version = "2"
    /\ face.items # <<>>
    /\ loads > 1

\* C3: after unload no drawable of a Scene Item exists under the face screen.
DrawablesDestroyed ==
    op.name = "unload" =>
        \A i \in DOMAIN lv_objs : lv_objs[i].kind \notin SceneKinds

\* C4: unload is idempotent.  Every unload returns with the four lists and
\* both font collections empty, and an unload that follows an unload, or
\* that comes before any load, calls no destructor.
UnloadIdempotent ==
    op.name = "unload" =>
        /\ ~op.raised
        /\ IsUnloaded
        /\ prev_op.name \in {"unload", "init"} => calls = <<>>

\* the second of two unloads after a load that created fonts
UnloadIdempotentWitness ==
    /\ op.name = "unload" /\ prev_op.name = "unload"
    /\ next_font > FirstFont

\* C5: round trip.  A load of the descriptor of the load before tracks the
\* same items, of the same types, in the same order; after every unload
\* both font collections are as before the first load, empty, and no font
\* of the generation is left alive.
RoundTrip ==
    /\ (op.name = "load" /\ prev_scene.face = face) => scene = prev_scene.scene
    /\ op.name = "unload" =>
          Len(_fonts) = 0 /\ Len(_image_fonts) = 0 /\ lv_fonts = {}

\* the second load of a face with labels, handles and cached fonts
RoundTripWitness ==
    /\ op.name = "load" /\ ~op.raised /\ prev_op.name = "unload"
    /\ prev_scene.face = face
    /\ Len(_labels) > 1 /\ Len(_handles) > 0 /\ Len(_fonts) > 0

(***************************************************************************)
(* Properties of the template engine.                                      *)
(***************************************************************************)
Keys == { _PLACEHOLDERS[i] : i \in DOMAIN _PLACEHOLDERS }

RECURSIVE Substitute(_, _)
\* the text with every token occurrence replaced by the token's value for c,
\* all at once: what is put in is not looked at again
Substitute(text, c) ==
    IF text = <<>> THEN <<>>
    ELSE LET hits == { i \in DOMAIN _PLACEHOLDERS :
                         /\ Len(_PLACEHOLDERS[i]) <= Len(text)
                         /\ SubSeq(text, 1, Len(_PLACEHOLDERS[i])) = _PLACEHOLDERS[i] }
         IN  IF hits = {} THEN <<Head(text)>> \o Substitute(Tail(text), c)
             ELSE LET i == CHOOSE h \in hits : TRUE
                  IN  transform_cb(i, c)
                      \o Substitute(SubSeq(text, Len(_PLACEHOLDERS[i]) + 1, Len(text)), c)

\* no opening brace follows another one without a closing brace between them
Flat(text) ==
    \A i, j \in DOMAIN text :
        (i < j /\ text[i] = "{" /\ text[j] = "{")
            => \E k \in (i + 1)..(j - 1) : text[k] = "}"

RECURSIVE BraceGroups(_)
\* the parts "{...}" of the text with no brace inside, from left to right
BraceGroups(text) ==
    IF text = <<>> THEN <<>>
    ELSE IF Head(text) # "{" THEN BraceGroups(Tail(text))
    ELSE LET braces == { j \in 2..Len(text) : text[j] \in {"{", "}"} }
         IN  IF braces = {} THEN <<>>
             ELSE LET close == CHOOSE j \in braces : \A m \in braces : j <= m
                  IN  IF text[close] = "}"
                      THEN <<SubSeq(text, 1, close)>>
                           \o BraceGroups(SubSeq(text, close + 1, Len(text)))
                      ELSE BraceGroups(Tail(text))

IsUnknown(group) == group \notin Keys

UnknownGroups(text) == SelectSeq(BraceGroups(text), IsUnknown)

RECURSIVE IsSubsequence(_, _)
\* the elements of a occur in b, in the same order
IsSubsequence(a, b) ==
    IF a = <<>> THEN TRUE
    ELSE IF b = <<>> THEN FALSE
    ELSE IF Head(a) = Head(b) THEN IsSubsequence(Tail(a), Tail(b))
    ELSE IsSubsequence(a, Tail(b))

\* C6, as amended: after load and a show of context c, a label whose
\* template is flat (no token inside another pair of braces) displays the
\* template with every recognised token replaced by its value for c; a
\* template that is one token displays that token's value, and
\* "{YYYY}-{MM}-{DD}" shown for 1 January 2023 displays "2023-01-01".
TokenResolution ==
    (op.name = "show") =>
        \A i \in DOMAIN _labels :
            LET l == _labels[i]
            IN  /\ Flat(l.text)
                      => l.lv_label.text = Substitute(l.text, last_show)
                /\ \A k \in DOMAIN _PLACEHOLDERS :
                      (l.text = _PLACEHOLDERS[k])
                          => l.lv_label.text = transform_cb(k, last_show)
                /\ (/\ l.text = DateTemplate
                    /\ last_show.year = 2023
                    /\ last_show.month = 1
                    /\ last_show.day = 1)
                      => l.lv_label.text
                           = <<"2", "0", "2", "3", "-", "0", "1", "-", "0", "1">>

TokenResolutionWitness ==
    /\ op.name = "show"
    /\ \E i \in DOMAIN _labels :
          /\ _labels[i].text = DateTemplate
          /\ _labels[i].lv_label.text
               = <<"2", "0", "2", "3", "-", "0", "1", "-", "0", "1">>

\* C6, as stated: after load and a show of context c, every label displays
\* its template with every recognised token replaced by its value for c.
TokenResolutionEveryTemplate ==
    (op.name = "show") =>
        \A i \in DOMAIN _labels :
            _labels[i].lv_label.text = Substitute(_labels[i].text, last_show)

\* C7, as amended: for a flat template, resolving the resolved text again
\* with the same context, in whatever order the tokens are visited, yields
\* the same text, and the resolved text holds no token.
ResolutionIdempotent ==
    (op.name = "show") =>
        \A i \in DOMAIN _labels :
            Flat(_labels[i].text) =>
                /\ \A k \in DOMAIN _PLACEHOLDERS :
                      ~Contains(_labels[i].value, _PLACEHOLDERS[k])
                /\ \A order \in PlaceholderOrders :
                      Resolve(_labels[i].value, last_show, order) = _labels[i].value

ResolutionIdempotentWitness ==
    /\ op.name = "show"
    /\ \E i \in DOMAIN _labels :
          /\ Flat(_labels[i].text)
          /\ Len(BraceGroups(_labels[i].text)) >= 2
          /\ _labels[i].value # _labels[i].text
          /\ _labels[i].lv_label.text = _labels[i].value

\* C7, as stated: for every template, resolving the resolved text again with
\* the same context yields the same text.
ResolutionIdempotentEveryTemplate ==
    (op.name = "show") =>
        \A i \in DOMAIN _labels :
            \A order \in PlaceholderOrders :
                Resolve(_labels[i].value, last_show, order) = _labels[i].value

\* C8: show raises no error, and every brace group of a template that is not
\* a recognised token is in the displayed text, unchanged and in its order.
UnknownPreserved ==
    (op.name = "show") =>
        /\ ~op.raised
        /\ \A i \in DOMAIN _labels :
              IsSubsequence(UnknownGroups(_labels[i].text),
                            BraceGroups(_labels[i].lv_label.text))

UnknownPreservedWitness ==
    /\ op.name = "show"
    /\ ~op.raised
    /\ \E i \in DOMAIN _labels :
          /\ UnknownGroups(_labels[i].text) # <<>>
          /\ Len(BraceGroups(_labels[i].text)) > Len(UnknownGroups(_labels[i].text))
          /\ _labels[i].lv_label.text # _labels[i].text

(***************************************************************************)
(* Properties of the angle model.                                          *)
(***************************************************************************)
\* the expression of show for handle h as the fraction n / d, from the
\* handle's (min_value, max_value, min_angle, max_angle) and the value
\* extracted for the context
Expression(h) ==
    LET value == HandleValue(h, context)
        min_value == h.ranges[1]
        max_value == h.ranges[2]
        min_angle == h.ranges[3]
        max_angle == h.ranges[4]
    IN  [n |-> 10 * (min_angle * max_value * value.d
                     + (min_value * value.d + value.n) * max_angle),
         d |-> max_value * value.d,
         at_min |-> (value.n = min_value * value.d),
         exact |-> AngleExact(value, h.ranges)]

Sign(n) == IF n > 0 THEN 1 ELSE IF n < 0 THEN -1 ELSE 0

\* C9, as amended: the rotation applied is
\* (min_angle + ((min_value + value) / max_value) * max_angle) * 10 with its
\* fraction part dropped, that is, truncated toward zero and not rounded;
\* where the expression is a whole number but a quotient in it has no exact
\* binary floating-point form, the rotation may be one tenth nearer zero.
AngleTruncated ==
    (op.name = "show") =>
        \A i \in DOMAIN _handles :
            LET e == Expression(_handles[i])
                a == _handles[i].image.rotation
                rest == Abs(e.n) - Abs(a) * Abs(e.d)
            IN  /\ a = 0 \/ Sign(a) = Sign(e.n) * Sign(e.d)
                /\ rest >= 0
                /\ \/ rest < Abs(e.d)
                   \/ rest = Abs(e.d) /\ ~e.exact

AngleTruncatedWitness ==
    /\ op.name = "show"
    /\ \E i \in DOMAIN _handles :
          LET e == Expression(_handles[i])
          IN  /\ _handles[i].ranges[1] # 0
              /\ _handles[i].image.rotation # 0
              /\ 2 * (Abs(e.n) % Abs(e.d)) > Abs(e.d)
              /\ _handles[i].image.rotation = Trunc(e.n, e.d)

\* C9, as stated: the rotation applied is the expression rounded to the
\* nearest whole tenth of a degree.
AngleRounded ==
    (op.name = "show") =>
        \A i \in DOMAIN _handles :
            LET e == Expression(_handles[i])
                a == _handles[i].image.rotation
            IN  2 * Abs(e.n - a * e.d) <= Abs(e.d)

\* C10: when the value extracted for the context equals min_value, the
\* rotation applied is min_angle in tenths of a degree.
AngleAtMinValue ==
    (op.name = "show") =>
        \A i \in DOMAIN _handles :
            Expression(_handles[i]).at_min
                => _handles[i].image.rotation = _handles[i].ranges[3] * 10

(***************************************************************************)
(* Properties of the filesystem driver.                                    *)
(***************************************************************************)
\* C11: no callback lets an exception escape, and a callback whose native
\* operation has failed returns the I/O error code.
CallbacksNeverRaise ==
    /\ fs_op.raised = NoneStr
    /\ (fs_op.error # NoneStr) => (fs_op.ret = _RET_FS_ERR)

\* C12: open_cb in read mode of a path that does not exist fails with the
\* I/O error of the native open (ENOENT, carried by the RuntimeError it
\* raises), returns no handle, creates no LVGL_FS_File and leaves no native
\* file open.
OpenMissing ==
    [][(/\ fs_op'.name = "open_cb"
        /\ fs_op'.args.mode = FS_MODE_RD
        /\ ~files[fs_op'.args.path].exists)
          => /\ fs_op'.ret = NoneStr
             /\ fs_op'.file = None
             /\ fs_op'.raised # NoneStr
             /\ (fs_op'.args.fault # "unlisted")
                   => (fs_op'.raised = "RuntimeError" /\ fs_op'.error = "ENOENT")
             /\ fs_files' = fs_files
             /\ files' = files
             /\ OpenHandles' = OpenHandles]_vars

OpenMissingWitness ==
    /\ fs_op.name = "open_cb"
    /\ fs_op.args.mode = FS_MODE_RD
    /\ fs_op.args.path = "none.png"
    /\ ~files["none.png"].exists
    /\ fs_op.error = "ENOENT"
    /\ fs_op.ret = NoneStr
    /\ fs_op.file = None
    /\ fs_files = <<>>

\* the mode open() was given for the LVGL_FS_File of the last callback
ModeOf(o) == fs_files[o.args.handle].file.p_mode

\* the write, tell and read of a round trip, on handles of the given modes
RoundTripOn(p_modes) ==
    /\ (/\ fs_op.name = "write_cb"
        /\ fs_op.args.fault = "none"
        /\ ModeOf(fs_op) \in p_modes)
          => /\ fs_op.ret = _RET_OK
             /\ fs_op.count = Len(fs_op.args.buf)
    /\ (/\ fs_op.name = "tell_cb"
        /\ fs_op.args.fault = "none"
        /\ ModeOf(fs_op) \in p_modes
        /\ written[fs_op.args.handle].unmoved)
          => /\ fs_op.ret = _RET_OK
             /\ fs_op.count = Len(written[fs_op.args.handle].buf)
    /\ (/\ fs_op.name = "read_cb"
        /\ fs_op.args.fault = "none"
        /\ ModeOf(fs_op) \in p_modes
        /\ fs_op.args.at = 0
        /\ written[fs_op.args.handle].buf # <<>>
        /\ fs_op.args.btr = Len(written[fs_op.args.handle].buf))
          => /\ fs_op.ret = _RET_OK
             /\ fs_op.count = fs_op.args.btr
             /\ fs_op.buf = written[fs_op.args.handle].buf

\* C13, as amended: on a handle open_cb returned for read-write mode, while
\* the native operations succeed, a write of N bytes at offset 0 reports N
\* bytes written, tell after the write reports N, and after a seek to
\* offset 0 a read of N bytes reports N bytes read and fills the buffer with
\* the bytes written.
WriteReadRoundTrip == RoundTripOn({"rb+"})

WriteReadRoundTripWitness ==
    /\ fs_op.name = "read_cb"
    /\ fs_op.ret = _RET_OK
    /\ fs_op.args.at = 0
    /\ ModeOf(fs_op) = "rb+"
    /\ Len(fs_op.buf) = MaxLen
    /\ fs_op.buf = written[fs_op.args.handle].buf
    /\ fs_op.count = MaxLen

\* C13, as stated: on any handle open_cb returned, a write of N bytes
\* reports N bytes written, tell after it reports N, and after a seek to
\* offset 0 a read of N bytes reports N bytes read and the bytes written.
WriteReadRoundTripAnyHandle == RoundTripOn({"rb", "wb", "rb+"})

\* C14: open_cb takes the modes read, write and read-write: with one of
\* them and a native open that succeeds it returns a new LVGL_FS_File; with
\* any other mode value it fails with the invalid-mode error (a RuntimeError),
\* opens no native file and returns no handle.
OpenModes ==
    [][(fs_op'.name = "open_cb") =>
          LET mode == fs_op'.args.mode
              path == fs_op'.args.path
          IN  /\ (mode \notin {FS_MODE_RD, FS_MODE_WR, FS_MODE_WR_RD})
                    => /\ fs_op'.ret = NoneStr
                       /\ fs_op'.file = None
                       /\ fs_op'.raised = "RuntimeError"
                       /\ fs_op'.error = "open mode error"
                       /\ fs_files' = fs_files
                       /\ files' = files
              /\ (/\ mode \in {FS_MODE_RD, FS_MODE_WR, FS_MODE_WR_RD}
                  /\ fs_op'.args.fault = "none"
                  /\ (mode = FS_MODE_WR \/ files[path].exists))
                    => /\ fs_op'.raised = NoneStr
                       /\ fs_op'.file = Len(fs_files) + 1
                       /\ Len(fs_files') = Len(fs_files) + 1
                       /\ fs_files'[fs_op'.file].path = path
                       /\ ~fs_files'[fs_op'.file].file.closed]_vars

OpenModesWitness ==
    /\ fs_op.name = "open_cb"
    /\ fs_op.args.mode \notin {FS_MODE_RD, FS_MODE_WR, FS_MODE_WR_RD}
    /\ fs_op.args.mode # 0
    /\ files[fs_op.args.path].exists
    /\ fs_op.error = "open mode error"
    /\ fs_files = <<>>

(***************************************************************************)
(* Claims about the assets of a face.                                      *)
(***************************************************************************)
\* the descriptor names a background image that cannot be loaded
BackgroundMissing(config) ==
    LET background == Get(config, "background", EmptyDict)
    IN  "image" \in DOMAIN background /\ SetSrcRaises(background.image)

\* C16: when the background image of a supported descriptor cannot be
\* loaded, load raises, builds none of the items of the descriptor (the
\* container and the image object of the background are all it created) and
\* appends nothing to a tracking list or a font collection.
BackgroundFatal ==
    [][(op'.name = "load" /\ ~Unsupported(face') /\ BackgroundMissing(face'))
          => /\ op'.raised
             /\ Len(lv_objs') = Len(lv_objs) + 2
             /\ lv_fonts' = lv_fonts
             /\ _labels' = _labels /\ _handles' = _handles
             /\ _images' = _images /\ _gifs' = _gifs
             /\ _fonts' = _fonts /\ _image_fonts' = _image_fonts]_vars

BackgroundFatalWitness ==
    /\ op.name = "load"
    /\ op.raised
    /\ ~Unsupported(face)
    /\ BackgroundMissing(face)
    /\ Len(face.items) > 1
    /\ IsUnloaded
    /\ loads = MaxLoads

\* the items of a descriptor that load builds a label for
LabelItems(config) ==
    SelectSeq(Get(config, "items", <<>>),
              LAMBDA item : Get(item, "type", NoneStr) = "label")

\* C17: when the font of a label or the image file of an image, gif or
\* handle item cannot be loaded, load raises nothing and still builds every
\* later item: here, every label of the descriptor.
AssetErrorsSkipped ==
    (op.name = "load" /\ ~Unsupported(face) /\ ~BackgroundMissing(face))
        => /\ ~op.raised
           /\ Len(_labels) = Len(LabelItems(face))

NoKey == [kind |-> "none", name |-> <<>>, size |-> 0, glyphs |-> NoneStr]

\* the key an item asks the font cache with: name and size for a scalable
\* font, the name for a bitmap font or for glyph images, NoKey for a
\* built-in font or no font
CacheKey(item) ==
    LET name == Get(item, "font", <<>>)
    IN  IF name # <<>>
        THEN IF _INTERNAL_FONTS(name) # None THEN NoKey
             ELSE IF EndsWith(name, <<".", "t", "t", "f">>)
             THEN [kind |-> "ttf", name |-> name,
                   size |-> Get(item, "font_size", 0), glyphs |-> NoneStr]
             ELSE [kind |-> "bin", name |-> name, size |-> 0, glyphs |-> NoneStr]
        ELSE IF "imagefont" \in DOMAIN item
        THEN [kind |-> "img", name |-> <<>>, size |-> 0, glyphs |-> item.imagefont]
        ELSE NoKey

\* C18: after a load, two labels that asked with the same key hold the same
\* font handle, and the two font collections hold at most one entry per key.
CacheShared ==
    (op.name = "load" /\ ~op.raised)
        => LET items == LabelItems(face)
               keys == {CacheKey(items[i]) : i \in DOMAIN items} \ {NoKey}
           IN  /\ \A i, j \in DOMAIN items :
                     (CacheKey(items[i]) = CacheKey(items[j])
                      /\ CacheKey(items[i]) # NoKey)
                        => _labels[i].lv_label.font = _labels[j].lv_label.font
               /\ Len(_fonts) + Len(_image_fonts) <= Cardinality(keys)

\* the destructor of a font made by the loader of that kind
Destructor(kind) ==
    IF kind = "ttf" THEN "tiny_ttf_destroy"
    ELSE IF kind = "bin" THEN "binfont_destroy"
    ELSE "imgfont_destroy"

\* C19: unload calls, for every font of the two collections, one destructor,
\* the one of the loader that created the font; it destroys no built-in
\* font, and the fonts it destroyed are in no collection afterwards.
ReleasedOnce ==
    [][(op'.name = "unload")
          => /\ \A f \in lv_fonts :
                   LET made == {k \in DOMAIN calls' : calls'[k].target = f.font}
                   IN  /\ Cardinality(made) = 1
                       /\ \A k \in made : calls'[k].fn = Destructor(f.kind)
             /\ \A k \in DOMAIN calls' : calls'[k].target \notin 1..(FirstFont - 1)
             /\ _fonts' = <<>> /\ _image_fonts' = <<>>]_vars

(***************************************************************************)
(* Claims about the App.                                                   *)
(***************************************************************************)
\* C15: with a time tuple given on the command line, the millisecond of
\* the context is 0 after every set_time of _show_face, whatever the number
\* of faces shown before.
SyntheticMillisecondZero ==
    (app.time_tuple # <<>> /\ app.pc \in {"sf.load", "sf.show"})
        => context.millisecond = 0

\* C20: when load starts, the four tracking lists and the two font
\* collections are empty.
LoadStartsUnloaded ==
    (app.pc = "sf.load") => IsUnloaded

\* the preview loop is running, or a callback dispatched in its sleep is
InLoop ==
    \/ app.pc \in {"loop", "loop.show", "sleep"}
    \/ app.pc \in {"sf.set_time", "sf.load", "sf.show"} /\ app.ret = "sleep"

\* the Exit callback has cleared _is_running and the loop has not ended
Cancelled == InLoop /\ ~app._is_running

\* C21, as amended: the Exit callback runs while the loop sleeps, after the
\* set_time and the show of the tick; once it has cleared _is_running the
\* loop starts no set_time, so it is never at its show with the flag
\* cleared, and the loop ends.  (A callback dispatched before the sleep returns can
\* still run _show_face.)
CooperativeCancel ==
    /\ [](Cancelled => app.pc # "loop.show")
    /\ (Cancelled ~> (app.pc = "exit"))

CooperativeCancelWitness ==
    /\ app.pc = "exit"
    /\ app.screen = "menu"
    /\ ~app._is_running
    /\ op.name = "show"

\* C21, as stated: once the running flag is cleared, no set_time and no show
\* is started at all.
CancelStopsAll ==
    [][Cancelled => (ticks' = ticks /\ app.pc \notin {"sf.show", "loop.show"})]_vars

\* s is the beginning of t
IsPrefix(s, t) == Len(s) <= Len(t) /\ s = SubSeq(t, 1, Len(s))

\* what snapshot does for one face, in order
SnapshotSteps ==
    << Step("clean"), Step("cache_drop"), Step("set_time"), Step("load"),
       Step("show"), Step("snapshot_take"),
       [step |-> "write", n |-> _WIDTH * _HEIGHT * 4], Step("unload") >>

\* C22: the snapshot of a face that exists and loads is, in this order,
\* set_time with the tuple given, load, one show, the rasterization, the
\* write of width*height*4 bytes and unload; snapshot_all takes the faces in
\* list order and drops the image cache after the unload of a face and
\* before the load of the next.
SnapshotSequence ==
    (app.mode \in {"snapshot", "snapshot_all"})
        => /\ IsPrefix(app.log,
                       IF app.mode = "snapshot_all"
                       THEN Append(SnapshotSteps, Step("cache_drop"))
                       ELSE SnapshotSteps)
           /\ (app.pc \in {"sf.load", "sf.show", "snap.unload"}
               /\ app.time_tuple # <<>>)
                 => SansMs(context) = ContextAt(app.time_tuple, 0)
           /\ (app.pc = "snap" /\ app.done # <<>>)
                 => Len(app.log) = Len(SnapshotSteps)
                                   + (IF app.mode = "snapshot_all" THEN 1 ELSE 0)
           /\ (app.mode = "snapshot_all")
                 => /\ IsPrefix(app.done, [i \in 1..Len(AppFaces) |-> i])
                    /\ app.done \o app.todo = [i \in 1..Len(AppFaces) |-> i]
           /\ (app.pc = "snap.unload") => ~IsUnloaded
           /\ (app.pc = "snap") => IsUnloaded

SnapshotSequenceWitness ==
    /\ app.mode = "snapshot_all"
    /\ app.pc = "snap"
    /\ app.done = <<1, 2>>
    /\ app.log[Len(app.log)] = Step("cache_drop")
    /\ app.log[Len(app.log) - 1] = Step("unload")

\* the items of a descriptor of one type, in descriptor order
ItemsOfType(config, type) ==
    SelectSeq(Get(config, "items", <<>>),
              LAMBDA item : Get(item, "type", NoneStr) = type)

\* the image files _images holds after a load: the background first
ImagesOf(config) ==
    LET background == Get(config, "background", EmptyDict)
        items == ItemsOfType(config, "image")
    IN  (IF "image" \in DOMAIN background THEN <<background.image>> ELSE <<>>)
        \o [i \in DOMAIN items |-> items[i].file]

\* the ids of a list of drawables grow: they were created in list order
Ascending(ids) == \A i, j \in DOMAIN ids : i < j => ids[i] < ids[j]

\* every image file the descriptor names is there
AssetsPresent(config) ==
    /\ ~BackgroundMissing(config)
    /\ \A item \in {config.items[k] : k \in DOMAIN config.items} :
          LET type == Get(item, "type", NoneStr)
          IN  /\ type \in {"image", "gif"} => ~SetSrcRaises(item.file)
              /\ type = "handle" => ~SetSrcRaises(item.image)

\* C23: a load of a supported descriptor whose image files are there raises
\* nothing, whatever the types of its items; after it every tracking list
\* holds the items of its type in descriptor order, and the items without a
\* type or with a type other than label, image, gif and handle are in no
\* list: the items after them are built.
ItemOrder ==
    (op.name = "load" /\ ~Unsupported(face) /\ AssetsPresent(face))
        => LET labels == ItemsOfType(face, "label")
               gifs == ItemsOfType(face, "gif")
               handles == ItemsOfType(face, "handle")
               images == ImagesOf(face)
           IN  /\ ~op.raised
               /\ DOMAIN _labels = DOMAIN labels
               /\ \A i \in DOMAIN labels :
                     _labels[i].text = Get(labels[i], "text", <<>>)
               /\ Ascending([i \in DOMAIN _labels |-> _labels[i].lv_label.id])
               /\ DOMAIN _gifs = DOMAIN gifs
               /\ \A i \in DOMAIN gifs : _gifs[i].src = gifs[i].file
               /\ Ascending([i \in DOMAIN _gifs |-> _gifs[i].id])
               /\ DOMAIN _handles = DOMAIN handles
               /\ \A i \in DOMAIN handles :
                     /\ _handles[i].source = Get(handles[i], "source", NoneStr)
                     /\ _handles[i].image.src = handles[i].image
               /\ Ascending([i \in DOMAIN _handles |-> _handles[i].image.id])
               /\ DOMAIN _images = DOMAIN images
               /\ \A i \in DOMAIN images : _images[i].src = images[i]
               /\ Ascending([i \in DOMAIN _images |-> _images[i].id])

ItemOrderWitness ==
    /\ op.name = "load"
    /\ ~op.raised
    /\ \E k \in DOMAIN face.items :
          /\ "type" \in DOMAIN face.items[k]
          /\ face.items[k].type \notin {"label", "image", "gif", "handle"}
          /\ k < Len(face.items)
    /\ \E k \in DOMAIN face.items : "type" \notin DOMAIN face.items[k]
    /\ Len(_handles) = 2
    /\ Len(_images) = 1
    /\ Len(_gifs) = 1
    /\ _handles[1].source = "hour" /\ _handles[2].source = "minute"

\* C24: from the start of a show of the loop or of _show_face to its end
\* nothing else runs: the step taken is that show, which leaves the images,
\* the gifs, the fonts and the number of labels and handles as they are;
\* and a callback of the preview (its unload, the start of its _show_face,
\* the change of screen, selection or focus, the clearing of _is_running)
\* runs only while the loop sleeps.
ShowAtomic ==
    [][/\ (app.pc \in {"loop.show", "sf.show"})
            => /\ op'.name = "show"
               /\ app'.pc = (IF app.pc = "loop.show" THEN "sleep" ELSE app.ret)
               /\ loads' = loads
               /\ _images' = _images /\ _gifs' = _gifs
               /\ _fonts' = _fonts /\ _image_fonts' = _image_fonts
               /\ DOMAIN _labels' = DOMAIN _labels
               /\ DOMAIN _handles' = DOMAIN _handles
       /\ (/\ app.mode = "none"
           /\ app.pc # "main"
           /\ \/ op'.name = "unload" /\ <<op, prev_op>>' # <<op, prev_op>>
              \/ app'.pc = "sf.set_time"
              \/ app'.screen # app.screen
              \/ app'.selected # app.selected
              \/ app'.focused # app.focused
              \/ app._is_running /\ ~app'._is_running)
            => app.pc = "sleep"]_vars

ShowAtomicWitness ==
    /\ app.pc = "sleep"
    /\ app.events
    /\ app.screen = "face"
    /\ op.name = "show"
    /\ prev_op.name = "show"
    /\ _labels # <<>>
    /\ _handles # <<>>

\* C25: a set_time (the steps that read the tick counter) leaves the
\* millisecond 0 when it is the first one or when its second differs from
\* the second the call before stored, and otherwise leaves the millisecond
\* of before plus the ticks counted since the call before.
MillisecondSynthesis ==
    [][ticks' # ticks
         => context'.millisecond =
                IF context = NoContext \/ context'.second # context.second
                THEN 0
                ELSE context.millisecond + (ticks' - ticks)]_vars

MillisecondSynthesisWitness ==
    /\ context # NoContext
    /\ context.millisecond = 520
    /\ ticks = 780
    /\ _prev_ticks_ms = ticks

\* C26: a handle whose source has no entry in the tables of sources has
\* the ranges (0, 100, 0, 360), each replaced by the key of the item that
\* gives it; its value is 0 for the context, stepped and smooth; and where
\* the item gives none of the four keys show rotates it to 0.
RangeKeys == <<"min_value", "max_value", "min_angle", "max_angle">>

UnknownSource ==
    (op.name \in {"load", "show"} /\ ~op.raised) =>
        \A i \in DOMAIN _handles :
            LET handle == _handles[i]
                item == ItemsOfType(face, "handle")[i]
            IN  (handle.source \notin HandleSources) =>
                   /\ \A k \in 1..4 :
                         handle.ranges[k] =
                             Get(item, RangeKeys[k], <<0, 100, 0, 360>>[k])
                   /\ HandleValue(handle, context) = [n |-> 0, d |-> 1, exact |-> TRUE]
                   /\ _HANDLES_GET_VALUES(handle.source, context).n = 0
                   /\ _HANDLES_GET_SMOOTH_VALUES(handle.source, context).n = 0
                   /\ (/\ op.name = "show"
                       /\ \A k \in 1..4 : RangeKeys[k] \notin DOMAIN item)
                         => handle.image.rotation = 0

UnknownSourceWitness ==
    /\ op.name = "show"
    /\ _use_smooth_handles
    /\ context.second # 0
    /\ context.millisecond # 0
    /\ Len(_handles) = 1
    /\ _handles[1].source = "battery"
    /\ _handles[1].ranges = <<0, 100, 0, 360>>
    /\ _handles[1].image.rotation = 0

\* C27: the cached value of every tracked label is the text its drawable
\* shows, both empty after a load; and a show calls set_text on a label
\* exactly when the text it resolves for the label is not the text the
\* drawable showed before.
Written(label, cs) ==
    \E k \in DOMAIN cs : cs[k].fn = "set_text" /\ cs[k].target = label.lv_label.id

LabelCache ==
    /\ [](/\ \A i \in DOMAIN _labels : _labels[i].value = _labels[i].lv_label.text
          /\ (op.name = "load")
                => \A i \in DOMAIN _labels : _labels[i].lv_label.text = <<>>)
    /\ [][(op'.name = "show" /\ ticks' = ticks) =>
            /\ DOMAIN _labels' = DOMAIN _labels
            /\ \A i \in DOMAIN _labels :
                  /\ Written(_labels[i], calls')
                        <=> (_labels'[i].value # _labels[i].lv_label.text)
                  /\ \E order \in PlaceholderOrders :
                        _labels'[i].lv_label.text
                            = Resolve(_labels[i].text, context, order)]_vars

LabelCacheWitness ==
    /\ op.name = "show"
    /\ prev_op.name = "show"
    /\ ~repeated
    /\ \E i, j \in DOMAIN _labels :
          /\ Written(_labels[i], calls)
          /\ ~Written(_labels[j], calls)
          /\ _labels[j].value # <<>>

\* C28: a handle whose source is in the table of default ranges and whose
\* item gives none of the four range keys is rotated by show to an angle
\* from min_angle * 10 to (min_angle + max_angle) * 10, that is 0..3600,
\* stepped and smooth.
DefaultAnglesInRange ==
    (op.name = "show") =>
        \A i \in DOMAIN _handles :
            LET handle == _handles[i]
                item == ItemsOfType(face, "handle")[i]
            IN  (/\ handle.source \in HandleSources
                 /\ \A k \in 1..4 : RangeKeys[k] \notin DOMAIN item)
                   => /\ handle.image.rotation >= handle.ranges[3] * 10
                      /\ handle.image.rotation
                            <= (handle.ranges[3] + handle.ranges[4]) * 10
                      /\ handle.image.rotation \in 0..3600

\* C29: after set_time has been called, however often and however long
\* after the call before, the millisecond is an integer from 0 to 999.
MillisecondInRange ==
    (context # NoContext) => context.millisecond \in 0..999

============================================================================
